---- MODULE Spec2Model ----
(***************************************************************************)
(* Model of the retrying HTTP request core (src/src/api-client/ApiClient.ts *)
(* and types.ts).  One call of get/post/put/delete is followed from its    *)
(* start to the envelope it resolves to, one step per stretch of code      *)
(* between two awaits; the transport, the timers, the interceptors and     *)
(* Math.random are the environment.                                        *)
(*                                                                         *)
(* Model of the transformation pipeline (Pipeline.ts, its types and the    *)
(* transformers): pipelines are built with transform, and one execute is   *)
(* followed from its start to its result, one step per awaited step call.  *)
(*                                                                         *)
(* Model of the event emitter (src/src/advanced/TypedEventEmitter.ts): the *)
(* listener map, and what each emit called.                                *)
(***************************************************************************)
EXTENDS Integers, Sequences, FiniteSets, TLC

(***************************************************************************)
(* Bounds of the model                                                     *)
(***************************************************************************)
\* retry policies are explored for maxRetries in 0..MaxRetriesBound
MaxRetriesBound == 2
\* at most this many interceptors are registered, request and response together
MaxInterceptors == 2
\* Math.random() is drawn from {0/RandomScale, ..., (RandomScale-1)/RandomScale}
RandomScale == 2
\* a pipeline has at most this many steps
MaxSteps == 3
\* at most this many pipelines exist
MaxPipelines == 3
\* execute is given at most this many records
MaxRecords == 3
\* at most this many listener registrations are held, all events together
MaxRegistrations == 3
\* listeners registered between two emits on an emitter whose listeners call
\* it back; a listener called by emit registers one more at most
MaxListeners == 2
\* a client builds at most this many requests
MaxRequests == 1
\* the user repository holds at most this many users
MaxUsers == 1
\* at most this many calls of the user service are in flight or remembered
MaxServiceCalls == 2

(***************************************************************************)
(* Program constants                                                       *)
(***************************************************************************)
DefaultTimeout == 30000

(***************************************************************************)
(* Input domains                                                           *)
(***************************************************************************)
Methods == {"GET", "POST", "PUT", "DELETE"}
\* <<initialDelay, maxDelay, backoffMultiplier>>, in ms: a zero delay, a
\* constant delay, a delay capped from the second sleep on, and one never capped
DelayPolicies == {<<0, 1, 2>>, <<1, 3, 1>>, <<1, 1, 2>>, <<1, 3, 2>>}
Tokens == {"", "t1"}
\* statuses a transport can answer with: 2xx, 3xx, 4xx and both ends of 5xx
Statuses == {200, 204, 304, 404, 500, 599}
\* request interceptors: "A" and "B" append their mark to a trace header,
\* "throw" raises an ordinary Error
RequestInterceptorKinds == {"A", "B", "throw"}
\* response interceptors: "pass" returns the response it got, "throw" raises
ResponseInterceptorKinds == {"pass", "throw"}
\* response interceptors of the runs that follow the response: "to200" and
\* "to500" return a new response with that status, "throwAbort" raises an
\* error whose name is 'AbortError'
StatusResponseInterceptorKinds == {"pass", "to200", "to500", "throw", "throwAbort"}
\* request interceptors of the runs that follow the credential token and the
\* timeout: "auth" sets its own Authorization header, "timeout0" and
\* "timeout7" set the descriptor's timeout override to 0 ms and to 7 ms
AuthRequestInterceptorKinds == {"A", "auth", "timeout0", "timeout7"}
\* tokens handed to setAuthToken
SetTokens == {"", "t1", "t2"}
\* timeouts handed to the constructor, NoTimeout for none
ConfiguredTimeouts == {-1, 50}
Randoms == 0..(RandomScale - 1)

\* Content-Type headers of a response, as the pieces a search for a substring
\* tells apart: none, the JSON type alone, with a parameter, spelled with
\* capitals, and a text type
NoContentType == <<>>
JsonContentType == <<"application/json">>
ContentTypes == {NoContentType, JsonContentType, <<"application/json", "; charset=utf-8">>,
                 <<"Application/JSON">>, <<"text/plain">>}

NoTimeout == -1
NoStatus == 0
NoAuthorization == <<>>

(***************************************************************************)
(* State                                                                   *)
(***************************************************************************)
VARIABLES
  retryConfig,          \* this.config.retryConfig
  cfgTimeout,           \* this.config.timeout
  authToken,            \* this.config.authToken
  requestInterceptors,  \* this.requestInterceptors
  responseInterceptors, \* this.responseInterceptors
  call,                 \* the call in flight: position, locals, and its history
  arrays,               \* the step arrays allocated so far
  pipelines,            \* the Pipeline objects: this.steps, as an index into arrays
  exec,                 \* the execute in flight: position, locals, and its history
  listeners,            \* this.listeners of the event emitter
  emitted,              \* what the last emit did: the calls it made, how it ended
  built,                \* the last request built: its inputs, and what fetch was given
  users,                \* this.users of the in-memory user repository
  svc                   \* the calls of the user service in flight, and their outcomes

vars == <<retryConfig, cfgTimeout, authToken, requestInterceptors,
          responseInterceptors, call, arrays, pipelines, exec, listeners, emitted,
          built, users, svc>>

pipelineVars == <<arrays, pipelines, exec>>

emitterVars == <<listeners, emitted>>

builderVars == <<built>>

serviceVars == <<users, svc>>

clientVars == <<retryConfig, cfgTimeout, authToken, requestInterceptors,
                responseInterceptors>>

(***************************************************************************)
(* Errors (types.ts).  "raw" is a thrown value that is not an ApiError;    *)
(* at is the attempt that created the error object (its identity).         *)
(***************************************************************************)
NoError == [type |-> "none", name |-> "", statusCode |-> NoStatus,
            timeoutMs |-> NoTimeout, body |-> "none", at |-> -1]

RawError(name, at) == [NoError EXCEPT !.type = "raw", !.name = name, !.at = at]

NetworkError(at) == [NoError EXCEPT !.type = "network", !.name = "NetworkError", !.at = at]

TimeoutError(timeoutMs, at) ==
  [NoError EXCEPT !.type = "timeout", !.name = "TimeoutError",
                  !.timeoutMs = timeoutMs, !.at = at]

HttpError(statusCode, body, at) ==
  [NoError EXCEPT !.type = "http", !.name = "HttpError",
                  !.statusCode = statusCode, !.body = body, !.at = at]

\* variant: every error status counts as a server error
isServerErrorFrom400(e) == e.statusCode >= 400 /\ e.statusCode < 600

isServerError(e) == e.statusCode >= 500 /\ e.statusCode < 600

\* Response.ok of the fetch standard
ok(status) == status >= 200 /\ status <= 299

(***************************************************************************)
(* Pure parts of ApiClient                                                 *)
(***************************************************************************)
\* variant: a timeout is retried like a network error
isRetryableErrorWithTimeout(error) ==
  IF error.type \in {"network", "timeout"} THEN TRUE
  ELSE IF error.type = "http" /\ isServerError(error) THEN TRUE
  ELSE FALSE

isRetryableError(error) ==
  IF error.type = "network" THEN TRUE
  ELSE IF error.type = "http" /\ isServerError(error) THEN TRUE
  ELSE FALSE

RECURSIVE Pow(_, _)
Pow(b, n) == IF n = 0 THEN 1 ELSE b * Pow(b, n - 1)

Min(a, b) == IF a <= b THEN a ELSE b

\* cappedDelay of calculateBackoffDelay, in ms
cappedDelay(attempt, initialDelay, maxDelay, backoffMultiplier) ==
  Min(initialDelay * Pow(backoffMultiplier, attempt), maxDelay)

\* variant: the jitter is added to the capped delay instead of replacing it
calculateBackoffDelayAdditive(attempt, initialDelay, maxDelay, backoffMultiplier, random) ==
  (RandomScale + random) * cappedDelay(attempt, initialDelay, maxDelay, backoffMultiplier)

\* The value returned, in units of 1/RandomScale ms: random stands for
\* Math.random() = random / RandomScale, so the product is exact.
calculateBackoffDelay(attempt, initialDelay, maxDelay, backoffMultiplier, random) ==
  random * cappedDelay(attempt, initialDelay, maxDelay, backoffMultiplier)

\* variant: the header is written whether or not a token is configured
injectAuthTokenAlways(requestConfig) ==
  [requestConfig EXCEPT !.headers.Authorization = <<"Bearer", authToken>>]

injectAuthToken(requestConfig) ==
  IF authToken = "" THEN requestConfig
  ELSE [requestConfig EXCEPT !.headers.Authorization = <<"Bearer", authToken>>]

transformError(error) ==
  IF error.type \in {"network", "timeout", "http"} THEN error
  ELSE NetworkError(error.at)

\* variant: the abort of the timer is not recognised
classifyCaughtNoAbort(error, timeout, at) ==
  IF error.type = "http" THEN error ELSE NetworkError(at)

\* the catch block of fetchWithTimeout
classifyCaught(error, timeout, at) ==
  IF error.name = "AbortError" THEN TimeoutError(timeout, at)
  ELSE IF error.type = "http" THEN error
  ELSE NetworkError(at)

\* what a request interceptor of the given kind returns for config
applyRequestInterceptor(kind, config) ==
  IF kind \in {"A", "B"}
  THEN [config EXCEPT !.headers.trace = Append(@, kind)]
  ELSE IF kind = "auth" THEN [config EXCEPT !.headers.Authorization = <<"custom">>]
  ELSE IF kind = "timeout0" THEN [config EXCEPT !.timeout = 0]
  ELSE IF kind = "timeout7" THEN [config EXCEPT !.timeout = 7]
  ELSE config

getAuthToken == authToken

\* the constructor's default for the timeout
constructorTimeout(timeout) == IF timeout = NoTimeout THEN DefaultTimeout ELSE timeout

\* variant: a falsy override falls back to the client's timeout
timeoutInForceOr(config) ==
  IF config.timeout # NoTimeout /\ config.timeout # 0 THEN config.timeout ELSE cfgTimeout

\* fetchWithTimeout: modifiedConfig.timeout ?? this.config.timeout
timeoutInForce(config) ==
  IF config.timeout # NoTimeout THEN config.timeout ELSE cfgTimeout

(***************************************************************************)
(* The call record                                                         *)
(***************************************************************************)
NoConfig == [method |-> "", headers |-> [Authorization |-> NoAuthorization, trace |-> <<>>],
             timeout |-> NoTimeout]

NoResult == [state |-> "pending", status |-> "none", data |-> "none", error |-> NoError]

\* pc .. response are the locals of request, retryWithBackoff and
\* fetchWithTimeout; the rest is the history of the call: the number of fetch
\* calls, the request handed to fetch in the current attempt, how many
\* transport outcomes were retryable failures (a rejection that is no abort,
\* a 5xx response), 2xx responses and anything else, the class of the last
\* one, the error the current attempt failed with and the delay it is
\* followed by, the number of backoff sleeps and the sum of their delays, what
\* parseResponse did, the Authorization header injectAuthToken left in the
\* descriptor in the current attempt and in the first one, the status of the
\* response fetch resolved with and the response interceptors that returned
\* in the current attempt, each with the status it was given, the number of
\* response interceptors registered when the call started, the Content-Type of
\* the error response whose body was read and whether reading it failed, and
\* the result.
NoBodyRead == [contentType |-> NoContentType, fails |-> FALSE]

IdleCall ==
  [pc |-> "idle", requestConfig |-> NoConfig, attempt |-> 0,
   reqIdx |-> 0, respIdx |-> 0, modifiedConfig |-> NoConfig,
   timeout |-> NoTimeout, timerArmed |-> FALSE, aborted |-> FALSE,
   response |-> NoStatus, fetchCalls |-> 0, lastSent |-> NoConfig,
   transport |-> [fail |-> 0, ok |-> 0, other |-> 0, last |-> "none"],
   attemptError |-> NoError, sleepCount |-> 0,
   lastDelay |-> 0, slept |-> 0, parsed |-> "none",
   injected |-> NoAuthorization, injectedFirst |-> NoAuthorization,
   received |-> NoStatus, respTrace |-> <<>>,
   respAtStart |-> 0,
   bodyRead |-> NoBodyRead,
   result |-> NoResult]

\* request(): the envelope of a successful call
requestSuccess(data) ==
  [state |-> "resolved", status |-> "success", data |-> data, error |-> NoError]

\* variant: a catch block that only handles the typed errors
requestCatchTypedOnly(error) ==
  IF error.type \in {"network", "timeout", "http"}
  THEN [state |-> "resolved", status |-> "error", data |-> "none", error |-> error]
  ELSE [state |-> "rejected", status |-> "none", data |-> "none", error |-> error]

\* request(): the catch block
requestCatch(error) ==
  [state |-> "resolved", status |-> "error", data |-> "none",
   error |-> transformError(error)]

finish(c, res) == [c EXCEPT !.pc = "done", !.result = res]

\* variant: the token is applied again when the request is built
sendReinjecting(c, config) ==
  [c EXCEPT !.pc = "fetch", !.modifiedConfig = injectAuthToken(config),
            !.timeout = timeoutInForce(config),
            !.timerArmed = TRUE, !.aborted = FALSE,
            !.fetchCalls = @ + 1, !.lastSent = injectAuthToken(config)]

\* fetchWithTimeout from the end of the request interceptors to the fetch call
send(c, config) ==
  [c EXCEPT !.pc = "fetch", !.modifiedConfig = config,
            !.timeout = timeoutInForce(config),
            !.timerArmed = TRUE, !.aborted = FALSE,
            !.fetchCalls = @ + 1, !.lastSent = config]

\* variant: a retry sends the request of the attempt before it again
beginAttemptResending(c, n) ==
  LET config == injectAuthToken(c.requestConfig)
      c0 == [c EXCEPT !.injected = config.headers.Authorization,
                      !.injectedFirst = IF n = 0 THEN config.headers.Authorization ELSE @,
                      !.received = NoStatus, !.respTrace = <<>>,
                      !.bodyRead = NoBodyRead,
                      !.respAtStart = IF n = 0 THEN Len(responseInterceptors) ELSE @]
  IN
  IF Len(requestInterceptors) = 0 \/ (n > 0 /\ c.lastSent # NoConfig)
  THEN send([c0 EXCEPT !.attempt = n, !.respIdx = 0,
                       !.response = NoStatus, !.attemptError = NoError,
                       !.lastDelay = 0],
            IF n > 0 /\ c.lastSent # NoConfig THEN c.lastSent ELSE config)
  ELSE [c0 EXCEPT !.attempt = n, !.pc = "reqInt", !.reqIdx = 1, !.respIdx = 0,
                  !.response = NoStatus, !.modifiedConfig = config,
                  !.lastSent = NoConfig, !.attemptError = NoError,
                  !.lastDelay = 0]

\* fetchWithTimeout from its entry to its first await, as attempt n
beginAttempt(c, n) ==
  LET config == injectAuthToken(c.requestConfig)
      c0 == [c EXCEPT !.injected = config.headers.Authorization,
                      !.injectedFirst = IF n = 0 THEN config.headers.Authorization ELSE @,
                      !.received = NoStatus, !.respTrace = <<>>,
                      !.bodyRead = NoBodyRead,
                      !.respAtStart = IF n = 0 THEN Len(responseInterceptors) ELSE @]
  IN
  IF Len(requestInterceptors) = 0
  THEN send([c0 EXCEPT !.attempt = n, !.reqIdx = 0, !.respIdx = 0,
                       !.response = NoStatus, !.attemptError = NoError,
                       !.lastDelay = 0], config)
  ELSE [c0 EXCEPT !.attempt = n, !.pc = "reqInt", !.reqIdx = 1, !.respIdx = 0,
                  !.response = NoStatus, !.modifiedConfig = config,
                  !.lastSent = NoConfig, !.attemptError = NoError,
                  !.lastDelay = 0]

\* variant: every interceptor is handed the descriptor the loop started with
afterRequestInterceptorFromOriginal(c, config) ==
  IF c.reqIdx < Len(requestInterceptors)
  THEN [c EXCEPT !.reqIdx = @ + 1, !.modifiedConfig = injectAuthToken(c.requestConfig)]
  ELSE send(c, config)

\* fetchWithTimeout: the request interceptor loop once the awaited interceptor
\* has returned config
afterRequestInterceptor(c, config) ==
  IF c.reqIdx < Len(requestInterceptors)
  THEN [c EXCEPT !.reqIdx = @ + 1, !.modifiedConfig = config]
  ELSE send(c, config)

\* variant: the loop gives up one attempt early
exhaustedEarly(attempt) == attempt >= retryConfig.maxRetries - 1

\* the loop condition's last value: no retry is left after attempt
exhausted(attempt) == attempt = retryConfig.maxRetries

\* variant: the delay is computed for the attempt that follows
attemptFailedDelayOfNext(c, error, random) ==
  LET c1 == [c EXCEPT !.attemptError = error]
      delay == calculateBackoffDelay(c.attempt + 1, retryConfig.initialDelay,
                  retryConfig.maxDelay, retryConfig.backoffMultiplier, random)
  IN
  IF ~isRetryableError(error) THEN finish(c1, requestCatch(error))
  ELSE IF exhausted(c.attempt) THEN finish(c1, requestCatch(error))
  ELSE [c1 EXCEPT !.pc = "sleep", !.sleepCount = @ + 1,
                  !.lastDelay = delay, !.slept = @ + delay]

\* retryWithBackoff: the catch block, for the error of the current attempt
attemptFailed(c, error, random) ==
  LET c1 == [c EXCEPT !.attemptError = error]
      delay == calculateBackoffDelay(c.attempt, retryConfig.initialDelay,
                  retryConfig.maxDelay, retryConfig.backoffMultiplier, random)
  IN
  IF ~isRetryableError(error) THEN finish(c1, requestCatch(error))
  ELSE IF exhausted(c.attempt) THEN finish(c1, requestCatch(error))
  ELSE [c1 EXCEPT !.pc = "sleep", !.sleepCount = @ + 1,
                  !.lastDelay = delay, !.slept = @ + delay]

\* history only: the class of a response the transport delivered
transportClass(status) ==
  IF ok(status) THEN "2xx"
  ELSE IF status >= 500 /\ status < 600 THEN "5xx"
  ELSE "other"

\* history only: count one more transport outcome of class cls
countOutcome(t, cls) ==
  [fail  |-> t.fail + (IF cls \in {"net", "5xx"} THEN 1 ELSE 0),
   ok    |-> t.ok + (IF cls = "2xx" THEN 1 ELSE 0),
   other |-> t.other + (IF cls \in {"other", "abort"} THEN 1 ELSE 0),
   last  |-> cls]

\* variant: the interceptor's result is dropped
applyResponseInterceptorDropped(kind, status) == status

\* the status of the response a response interceptor returns for the one it
\* is given
applyResponseInterceptor(kind, status) ==
  CASE kind = "to200" -> 200
    [] kind = "to500" -> 500
    [] OTHER -> status

\* contentType?.includes('application/json')
includesJson(contentType) ==
  \E i \in DOMAIN contentType : contentType[i] = "application/json"

\* variant: the body is decoded as JSON whatever the Content-Type
safeParseResponseBodyAlwaysJson(contentType, fails) ==
  IF fails THEN "undefined" ELSE "json"

\* safeParseResponseBody: what it resolves to for a response with the given
\* Content-Type, fails telling whether reading or decoding the body throws
safeParseResponseBody(contentType, fails) ==
  IF includesJson(contentType)
  THEN IF fails THEN "undefined" ELSE "json"
  ELSE IF fails THEN "undefined" ELSE "text"

\* variant: only status 200 counts as a success
afterResponseInterceptorsOnly200(c) ==
  IF c.response # 200 THEN [c EXCEPT !.pc = "errBody"] ELSE [c EXCEPT !.pc = "parse"]

\* fetchWithTimeout after the response interceptors: the status check
afterResponseInterceptors(c) ==
  IF ~ok(c.response) THEN [c EXCEPT !.pc = "errBody"] ELSE [c EXCEPT !.pc = "parse"]

(***************************************************************************)
(* The transformation pipeline                                             *)
(***************************************************************************)
\* records are small integers
RecordValues == 0..1
NoValue == -1

\* step functions.  "normalize" and "validate" are the arrow functions that
\* normalize(...) and validate(...) return, "failOnSpecificUser" is an arrow
\* function bound to a const of that name, "rejecting" is an async function
Fns == {"normalize", "validate", "failOnSpecificUser", "rejecting"}

\* the arguments transform is called with, <<fn, name>>, "" standing for an
\* absent or empty name: each function without a name, and validate also under
\* the name 'validate'
TransformArgs ==
  {<<fn, "">> : fn \in Fns} \cup {<<"validate", "validate">>}

\* step names: a text, or the text 'step-' followed by a number
Name(text) == [text |-> text, k |-> 0]
NoName == Name("")

\* what a step call can raise
NoThrown == [instanceOfError |-> FALSE, name |-> "", message |-> ""]
ValidationError == [instanceOfError |-> TRUE, name |-> "ValidationError", message |-> "invalid"]
SimulatedError == [instanceOfError |-> TRUE, name |-> "Error", message |-> "Simulated processing error"]

\* fn.name
fnName(fn) == IF fn = "failOnSpecificUser" THEN "failOnSpecificUser" ELSE ""

\* step.fn(x): a value returned (also through a promise), an exception thrown
\* by the call itself, or a promise that rejects.  normalize builds a new
\* record, validate returns its input unchanged or throws a ValidationError
\* (for odd records), failOnSpecificUser returns its input unchanged or throws
\* an Error (for record 2), rejecting rejects with a string (for record 0).
stepCall(fn, x) ==
  CASE fn = "normalize" -> [kind |-> "return", value |-> x + 1, error |-> NoThrown]
    [] fn = "failOnSpecificUser" ->
         IF x = 2
           THEN [kind |-> "throw", value |-> NoValue, error |-> SimulatedError]
           ELSE [kind |-> "return", value |-> x, error |-> NoThrown]
    [] fn = "validate" ->
         IF x % 2 = 1
           THEN [kind |-> "throw", value |-> NoValue, error |-> ValidationError]
           ELSE [kind |-> "return", value |-> x, error |-> NoThrown]
    [] fn = "rejecting" ->
         IF x = 0
           THEN [kind |-> "reject", value |-> NoValue,
                 error |-> [instanceOfError |-> FALSE, name |-> "", message |-> "bad"]]
           ELSE [kind |-> "return", value |-> x, error |-> NoThrown]

\* error instanceof Error ? error : new Error(String(error))
coerceError(error) ==
  IF error.instanceOfError THEN error
  ELSE [instanceOfError |-> TRUE, name |-> "Error", message |-> error.message]

\* variant: the positional label counts from zero
stepNameFromZero(name, fn, length) ==
  IF name # "" THEN Name(name)
  ELSE IF fnName(fn) # "" THEN Name(fnName(fn))
  ELSE [text |-> "step-", k |-> length]

\* name || fn.name || `step-${this.steps.length + 1}`
stepName(name, fn, length) ==
  IF name # "" THEN Name(name)
  ELSE IF fnName(fn) # "" THEN Name(fnName(fn))
  ELSE [text |-> "step-", k |-> length + 1]

\* this.steps of pipeline p
StepsOf(p) == arrays[pipelines[p]]

\* the steps a pipeline is constructed with: none, or one
InitialSteps == {<<>>, <<[fn |-> "normalize", name |-> Name("normalize")]>>}

NoPending == [kind |-> "none", value |-> NoValue, error |-> NoThrown]
NoPipelineResult ==
  [successful |-> <<>>, failed |-> <<>>, successCount |-> -1, failureCount |-> -1,
   totalCount |-> -1]

\* pc is "idle", "await" (at the await of a step call) or "done".  calls lists
\* the step calls made, successFrom and failedFrom the input position behind
\* each entry of successful and failed, stepsAtStart the steps the pipeline
\* had when execute was called.
IdleExec ==
  [pc |-> "idle", pipeline |-> 0, stepsAtStart |-> <<>>, data |-> <<>>, idx |-> 0,
   stepIdx |-> 0,
   current |-> NoValue, failedStepName |-> NoName, pending |-> NoPending,
   successful |-> <<>>, failed |-> <<>>, successFrom |-> <<>>, failedFrom |-> <<>>,
   calls |-> <<>>, result |-> NoPipelineResult]

\* variant: the total is taken from the successful list
pipelineResultTotalSuccessful(e) ==
  [successful |-> e.successful, failed |-> e.failed,
   successCount |-> Len(e.successful), failureCount |-> Len(e.failed),
   totalCount |-> Len(e.successful)]

\* the object execute returns
pipelineResult(e) ==
  [successful |-> e.successful, failed |-> e.failed,
   successCount |-> Len(e.successful), failureCount |-> Len(e.failed),
   totalCount |-> Len(e.data)]

\* variant: successful.unshift(current)
pushSuccessfulFirst(e) ==
  [e EXCEPT !.successful = <<e.current>> \o @, !.successFrom = <<e.idx>> \o @]

\* successful.push(current)
pushSuccessful(e) ==
  [e EXCEPT !.successful = Append(@, e.current), !.successFrom = Append(@, e.idx)]

\* variant: the entry stores the value the failing step was given
pushFailedCurrent(e, error) ==
  [e EXCEPT !.failed = Append(@, [originalData |-> e.current,
                                  error |-> coerceError(error),
                                  step |-> IF e.failedStepName = NoName THEN Name("unknown")
                                           ELSE e.failedStepName]),
            !.failedFrom = Append(@, e.idx)]

\* failed.push({originalData: record, error, step: failedStepName || 'unknown'})
pushFailed(e, error) ==
  [e EXCEPT !.failed = Append(@, [originalData |-> e.data[e.idx],
                                  error |-> coerceError(error),
                                  step |-> IF e.failedStepName = NoName THEN Name("unknown")
                                           ELSE e.failedStepName]),
            !.failedFrom = Append(@, e.idx)]

\* variant: the failure is reported under the name of the pipeline's last step
innerCatchLastStep(e, steps) ==
  [e EXCEPT !.failedStepName = steps[Len(steps)].name]

\* the inner catch: failedStepName = step.name
innerCatch(e, steps) ==
  [e EXCEPT !.failedStepName = steps[e.stepIdx].name]

\* variant: current is not set to the next record
nextRecordKeepingCurrent(e) ==
  [e EXCEPT !.idx = @ + 1, !.stepIdx = 1, !.failedStepName = NoName, !.pending = NoPending]

\* the next turn of the loop over data
nextRecord(e) ==
  [e EXCEPT !.idx = @ + 1, !.stepIdx = 1,
            !.current = IF e.idx + 1 <= Len(e.data) THEN e.data[e.idx + 1] ELSE NoValue,
            !.failedStepName = NoName, !.pending = NoPending]

\* execute from the head of the loop over the steps of record e.idx up to the
\* next await, or to the return
RECURSIVE runToAwait(_)
runToAwait(e) ==
  IF e.idx > Len(e.data) THEN [e EXCEPT !.pc = "done", !.result = pipelineResult(e)]
  ELSE LET steps == StepsOf(e.pipeline) IN
    IF e.stepIdx > Len(steps) THEN runToAwait(nextRecord(pushSuccessful(e)))
    ELSE LET out == stepCall(steps[e.stepIdx].fn, e.current)
             called == [e EXCEPT !.calls = Append(@, [record |-> e.idx, step |-> e.stepIdx])]
         IN IF out.kind = "throw"
              THEN runToAwait(nextRecord(pushFailed(innerCatch(called, steps), out.error)))
              ELSE [called EXCEPT !.pc = "await", !.pending = out]

\* what follows the await of a step call
afterAwait(e) ==
  IF e.pending.kind = "reject"
    THEN runToAwait(nextRecord(pushFailed(innerCatch(e, StepsOf(e.pipeline)), e.pending.error)))
    ELSE runToAwait([e EXCEPT !.current = e.pending.value, !.stepIdx = @ + 1,
                              !.pending = NoPending])

\* variant: the step is pushed onto this.steps, which the new pipeline shares
transformInPlace(p, fn, name) ==
  /\ arrays' = [arrays EXCEPT ![pipelines[p]] =
                  Append(@, [fn |-> fn, name |-> stepName(name, fn, Len(StepsOf(p)))])]
  /\ pipelines' = Append(pipelines, pipelines[p])

\* p.transform(fn, name)
transformOf(p, fn, name) ==
  /\ arrays' = Append(arrays, Append(StepsOf(p),
                  [fn |-> fn, name |-> stepName(name, fn, Len(StepsOf(p)))]))
  /\ pipelines' = Append(pipelines, Len(arrays) + 1)

(***************************************************************************)
(* The event emitter                                                       *)
(***************************************************************************)
Events == {"userLoggedIn", "dataUpdated"}
Payloads == {"p1", "p2"}
\* listener functions: two that return, one that throws
ListenerFns == {"listener1", "listener2", "errorListener"}
\* removeAllListeners() without an argument
Undefined == "undefined"

\* this.listeners[event] when the property is absent
NoEventListeners == [present |-> FALSE, list |-> <<>>]
\* this.listeners = {}
NoListeners == [event \in Events |-> NoEventListeners]

\* outcome is "returned" or "threw"; invoked lists the listener calls made,
\* logged counts the console.error calls
NoEmit == [event |-> "", payload |-> "", invoked |-> <<>>, logged |-> 0, outcome |-> "none"]

\* whether the call of the listener throws
throwsError(listener) == listener = "errorListener"

\* this.listeners[event]?.length ?? 0
listenerCount(event) ==
  IF listeners[event].present THEN Len(listeners[event].list) ELSE 0

\* variant: the listeners of every event
eventListenersOfAll(event) ==
  listeners["userLoggedIn"].list \o listeners["dataUpdated"].list

\* const eventListeners = this.listeners[event], nothing to iterate when it
\* is undefined
eventListenersOf(event) ==
  IF listeners[event].present THEN listeners[event].list ELSE <<>>

\* variant: no try / catch around the call
invokeUncaught(em, listener) ==
  LET called == [em EXCEPT !.invoked = Append(@, [listener |-> listener, payload |-> em.payload])]
  IN IF throwsError(listener) THEN [called EXCEPT !.outcome = "threw"] ELSE called

\* try { listener(payload) } catch (error) { console.error(...) }
invoke(em, listener) ==
  LET called == [em EXCEPT !.invoked = Append(@, [listener |-> listener, payload |-> em.payload])]
  IN IF throwsError(listener) THEN [called EXCEPT !.logged = @ + 1] ELSE called

\* for (const listener of eventListeners), from index i on; an exception that
\* leaves the loop body ends emit
RECURSIVE dispatch(_, _, _)
dispatch(em, list, i) ==
  IF em.outcome = "threw" THEN em
  ELSE IF i > Len(list) THEN [em EXCEPT !.outcome = "returned"]
  ELSE dispatch(invoke(em, list[i]), list, i + 1)

\* eventListeners.indexOf(listener), 0 when there is none
indexOf(list, listener) ==
  IF \E i \in 1..Len(list) : list[i] = listener
    THEN CHOOSE i \in 1..Len(list) :
           list[i] = listener /\ \A j \in 1..(i - 1) : list[j] # listener
    ELSE 0

\* eventListeners.splice(index, 1)
splice(list, index) ==
  SubSeq(list, 1, index - 1) \o SubSeq(list, index + 1, Len(list))

\* on(event, listener)
onOf(event, listener) ==
  /\ listeners' = [listeners EXCEPT ![event] =
                     [present |-> TRUE,
                      list |-> Append(IF @.present THEN @.list ELSE <<>>, listener)]]
  /\ UNCHANGED emitted

\* variant: every registration of the listener is removed
offOfEvery(event, listener) ==
  /\ listeners' = [listeners EXCEPT ![event].list = SelectSeq(@, LAMBDA l : l # listener)]
  /\ UNCHANGED emitted

\* off(event, listener)
offOf(event, listener) ==
  /\ listeners' =
       IF listeners[event].present /\ indexOf(listeners[event].list, listener) # 0
         THEN [listeners EXCEPT ![event].list = splice(@, indexOf(@, listener))]
         ELSE listeners
  /\ UNCHANGED emitted

\* variant: the map is replaced whether or not an event is given
removeAllListenersOfReset(event) ==
  /\ listeners' = NoListeners
  /\ UNCHANGED emitted

\* removeAllListeners(event)
removeAllListenersOf(event) ==
  /\ listeners' = IF event # Undefined THEN [listeners EXCEPT ![event] = NoEventListeners]
                  ELSE NoListeners
  /\ UNCHANGED emitted

\* emit(event, payload)
emitOf(event, payload) ==
  /\ emitted' = dispatch([NoEmit EXCEPT !.event = event, !.payload = payload],
                         eventListenersOf(event), 1)
  /\ UNCHANGED listeners

(***************************************************************************)
(* The event emitter with listeners that call it back.  emit is followed   *)
(* one listener call at a time; the array it iterates is the one held by   *)
(* this.listeners[event] until removeAllListeners detaches it.             *)
(***************************************************************************)
\* listener functions: one that returns, one that throws, one that removes
\* itself with off, one that registers itself again with on, one that calls
\* removeAllListeners for the event
ReentrantFns == {"listener1", "errorListener", "onceListener", "resubscriber", "clearer"}

\* the locals of an emit in progress: index is the position of the array
\* iterator, own the array once this.listeners[event] no longer holds it;
\* atStart is the array as it was when emit was called
NoDispatch ==
  [event |-> "", payload |-> "", invoked |-> <<>>, logged |-> 0, outcome |-> "none",
   index |-> 0, detached |-> FALSE, own |-> <<>>, atStart |-> <<>>]

\* the array the for...of loop of emit iterates
iterated(em) ==
  IF em.detached THEN em.own
  ELSE IF listeners[em.event].present THEN listeners[em.event].list ELSE <<>>

\* on(event, listener) on the map ls
pushed(ls, event, listener) ==
  [ls EXCEPT ![event] = [present |-> TRUE,
                         list |-> Append(IF @.present THEN @.list ELSE <<>>, listener)]]

\* off(event, listener) on the map ls
spliced(ls, event, listener) ==
  IF ls[event].present /\ indexOf(ls[event].list, listener) # 0
  THEN [ls EXCEPT ![event].list = splice(@, indexOf(@, listener))]
  ELSE ls

\* removeAllListeners(event) on the map ls
deleted(ls, event) == [ls EXCEPT ![event] = NoEventListeners]

\* what the call of the listener does to the map
listenerEffect(listener, event, ls) ==
  CASE listener = "onceListener" -> spliced(ls, event, listener)
    [] listener = "resubscriber" -> pushed(ls, event, listener)
    [] listener = "clearer" -> deleted(ls, event)
    [] OTHER -> ls

(***************************************************************************)
(* The request handed to fetch (ApiClient.fetchWithTimeout, buildUrl,      *)
(* serializeQueryParams).  A string is the sequence of the pieces that the *)
(* searches made in it tell apart.                                         *)
(***************************************************************************)
Absent == "absent"

\* base addresses: without and with a trailing slash
BaseURLs == {<<"http", "s", "://", "api">>, <<"http", "s", "://", "api", "/">>}

\* paths: relative ones, with a query, starting with the letters http;
\* absolute ones of three schemes; the empty path
Urls == {<<"/", "users">>, <<"/", "users", "?", "q=1">>, <<"http", "-status">>,
         <<"http", "://", "other", "/", "x">>,
         <<"http", "s", "://", "other", "/", "x", "?", "q=1">>,
         <<"ftp", "://", "other">>, <<>>}

\* params: undefined, or the entries of the mapping in Object.entries order,
\* each key and each String(value) a string
NoParams == [present |-> FALSE, entries |-> <<>>]

Params(entries) == [present |-> TRUE, entries |-> entries]

ParamsSet == {NoParams, Params(<<>>),
              Params(<< <<<<"query">>, <<"hello", " ", "world">>>>,
                        <<<<"filter">>, <<"name", "=", "John">>>> >>),
              Params(<< <<<<"a", "&", "b">>, <<"true">>>>, <<<<"limit">>, <<"10">>>> >>)}

HeaderNames == {"Content-Type", "content-type", "X-Trace"}

\* header mappings: a value for each key that is present
HeadersOf(contentType, lower, trace) ==
  [name \in HeaderNames |->
     IF name = "Content-Type" THEN contentType
     ELSE IF name = "content-type" THEN lower ELSE trace]

DefaultHeaderSets == {HeadersOf(Absent, Absent, Absent), HeadersOf(Absent, Absent, "d"),
                      HeadersOf("text/plain", Absent, "d")}

RequestHeaderSets == {HeadersOf(Absent, Absent, Absent), HeadersOf(Absent, Absent, "r"),
                      HeadersOf("text/csv", Absent, Absent), HeadersOf("", Absent, Absent),
                      HeadersOf(Absent, "text/csv", Absent)}

\* request bodies: undefined, three falsy values, and two truthy ones
Bodies == {"undefined", "null", "0", "false", "{}", "'text'"}

\* the value is truthy
truthy(body) == body \in {"{}", "'text'"}

\* no body is sent
NoBody == <<>>

\* JSON.stringify(body), for a body that is not undefined
stringify(body) == <<"JSON", body>>

\* { ...this.config.headers, ...headers }
mergeHeaders(defaults, headers) ==
  [name \in HeaderNames |-> IF headers[name] # Absent THEN headers[name] ELSE defaults[name]]

\* if (body && !mergedHeaders['Content-Type']) mergedHeaders['Content-Type'] = ...
withContentType(mergedHeaders, body) ==
  IF truthy(body) /\ mergedHeaders["Content-Type"] \in {Absent, ""}
  THEN [mergedHeaders EXCEPT !["Content-Type"] = "application/json"]
  ELSE mergedHeaders

\* body ? JSON.stringify(body) : undefined
sentBody(body) == IF truthy(body) THEN stringify(body) ELSE NoBody

\* url.startsWith('http')
startsWithHttp(url) == Len(url) > 0 /\ url[1] = "http"

\* baseUrl.includes('?')
includesQuestionMark(url) == \E i \in DOMAIN url : url[i] = "?"

\* encodeURIComponent, piece by piece
encodeURIComponent(text) ==
  [i \in DOMAIN text |->
     CASE text[i] = " " -> "%20"
       [] text[i] = "=" -> "%3D"
       [] text[i] = "&" -> "%26"
       [] OTHER -> text[i]]

\* serializeQueryParams: the entries encoded, joined with '&'
RECURSIVE serializeQueryParams(_)
serializeQueryParams(entries) ==
  IF Len(entries) = 0 THEN <<>>
  ELSE LET entry == encodeURIComponent(entries[1][1]) \o <<"=">>
                      \o encodeURIComponent(entries[1][2])
       IN IF Len(entries) = 1 THEN entry
          ELSE entry \o <<"&">> \o serializeQueryParams(Tail(entries))

buildUrl(baseURL, url, params) ==
  LET baseUrl == IF startsWithHttp(url) THEN url ELSE baseURL \o url
  IN IF ~params.present \/ Len(params.entries) = 0 THEN baseUrl
     ELSE baseUrl \o <<IF includesQuestionMark(baseUrl) THEN "&" ELSE "?">>
                  \o serializeQueryParams(params.entries)

\* what fetch is called with for the descriptor the interceptors returned
fetchArguments(baseURL, defaults, config) ==
  [url |-> buildUrl(baseURL, config.url, config.params),
   method |-> config.method,
   headers |-> withContentType(mergeHeaders(defaults, config.headers), config.body),
   body |-> sentBody(config.body)]

\* the descriptors: what get, post, put and delete build, with the headers
\* and the other fields request interceptors may add
Descriptors ==
  [method : {"GET", "POST"}, url : Urls, params : ParamsSet, headers : RequestHeaderSets,
   body : Bodies]

(***************************************************************************)
(* The user service and its in-memory repository                           *)
(* (src/src/code-review/UserService.refactored.ts).  A name is a text of    *)
(* len characters between pad blanks on each side; an email is the         *)
(* sequence of its characters.                                             *)
(***************************************************************************)
MinNameLength == 2
MaxNameLength == 100

Ids == 1..MaxUsers

\* a field of a DTO: given is FALSE for a key that is not there
Name_(pad, len) == [given |-> TRUE, pad |-> pad, len |-> len]

AbsentName == [given |-> FALSE, pad |-> 0, len |-> 0]

Email(text) == [given |-> TRUE, text |-> text]

AbsentEmail == [given |-> FALSE, text |-> <<>>]

\* names: empty, blank, too short, the shortest and the longest valid ones,
\* one to be trimmed, and one too long
Names == {Name_(0, 0), Name_(1, 0), Name_(1, 1), Name_(0, MinNameLength),
          Name_(1, MaxNameLength), Name_(0, MaxNameLength + 1)}

\* emails: empty, blank, without a dot after the @, with nothing between the
\* @ and the dot, with a blank inside, and valid ones, one of them to be
\* trimmed and lowered
Emails == {Email(<<>>), Email(<<" ">>), Email(<<"a", "@", "a">>),
           Email(<<"a", "@", ".", "a">>), Email(<<"a", " ", "@", "a", ".", "a">>),
           Email(<<"b", "@", "a", ".", "a">>),
           Email(<<" ", "A", "@", "a", ".", "a", " ">>)}

\* String.prototype.trim
RECURSIVE trimText(_)
trimText(text) ==
  IF Len(text) = 0 THEN text
  ELSE IF Head(text) = " " THEN trimText(Tail(text))
  ELSE IF text[Len(text)] = " " THEN trimText(SubSeq(text, 1, Len(text) - 1))
  ELSE text

\* String.prototype.toLowerCase
toLowerCase(text) == [i \in DOMAIN text |-> IF text[i] = "A" THEN "a" ELSE text[i]]

\* name.trim().length
trimmedLength(name) == name.len

\* variant: an address needs no dot after the @
isValidEmailNoDot(email) ==
  LET text == trimText(email) IN
  \E at \in DOMAIN text :
    /\ text[at] = "@" /\ at > 1 /\ at < Len(text)
    /\ \A k \in DOMAIN text \ {at} : text[k] \notin {" ", "@"}

\* /^[^\s@]+@[^\s@]+\.[^\s@]+$/.test(email.trim())
isValidEmail(email) ==
  LET text == trimText(email) IN
  \E at, dot \in DOMAIN text :
    /\ text[at] = "@" /\ text[dot] = "."
    /\ at > 1 /\ dot > at + 1 /\ dot < Len(text)
    /\ \A k \in DOMAIN text \ {at} : text[k] \notin {" ", "@"}

CreateDtos == [name : Names \cup {AbsentName}, email : Emails \cup {AbsentEmail}]

UpdateDtos == [name : Names \cup {AbsentName}, email : Emails \cup {AbsentEmail}]

NoUpdates == [name |-> AbsentName, email |-> AbsentEmail]

\* the DTOs of the runs that follow calls in flight together: a valid name
\* with a valid email, another name alone, and another email alone
SomeDtos ==
  {[name |-> Name_(0, MinNameLength), email |-> Email(<<"b", "@", "a", ".", "a">>)],
   [name |-> Name_(1, MaxNameLength), email |-> AbsentEmail],
   [name |-> AbsentName, email |-> Email(<<" ", "A", "@", "a", ".", "a", " ">>)]}

validateUserData(userData) ==
  IF ~userData.name.given \/ userData.name.pad + userData.name.len = 0
     \/ trimmedLength(userData.name) = 0
  THEN "ValidationError"
  ELSE IF trimmedLength(userData.name) < MinNameLength THEN "ValidationError"
  ELSE IF trimmedLength(userData.name) > MaxNameLength THEN "ValidationError"
  ELSE IF ~userData.email.given \/ Len(userData.email.text) = 0
          \/ Len(trimText(userData.email.text)) = 0
  THEN "ValidationError"
  ELSE IF ~isValidEmail(userData.email.text) THEN "ValidationError"
  ELSE "ok"

validateUpdateData(updates) ==
  IF ~updates.name.given /\ ~updates.email.given THEN "ValidationError"
  ELSE IF updates.name.given /\ trimmedLength(updates.name) = 0 THEN "ValidationError"
  ELSE IF updates.name.given /\ trimmedLength(updates.name) < MinNameLength
  THEN "ValidationError"
  ELSE IF updates.name.given /\ trimmedLength(updates.name) > MaxNameLength
  THEN "ValidationError"
  ELSE IF updates.email.given /\ Len(trimText(updates.email.text)) = 0 THEN "ValidationError"
  ELSE IF updates.email.given /\ ~isValidEmail(updates.email.text) THEN "ValidationError"
  ELSE "ok"

\* a stored user, with the length of its name; present is FALSE for an id
\* the map does not hold
NoUser == [present |-> FALSE, name |-> 0, email |-> <<>>, updatedAt |-> FALSE]

User(name, email, updatedAt) ==
  [present |-> TRUE, name |-> name, email |-> email, updatedAt |-> updatedAt]

\* InMemoryUserRepository.findById
findById(id) == users[id]

\* updateUser: { ...existingUser, ...sanitizedUpdates, updatedAt: new Date() }
mergeUpdate(existingUser, updates) ==
  User(IF updates.name.given THEN trimmedLength(updates.name) ELSE existingUser.name,
       IF updates.email.given THEN toLowerCase(trimText(updates.email.text))
       ELSE existingUser.email,
       TRUE)

\* a call of the service: the operation, where it stands, its arguments, the
\* user findById returned, and how the promise settled
NoCall == [op |-> "none", pc |-> "idle", id |-> 0, updates |-> NoUpdates,
           existingUser |-> NoUser, outcome |-> "none"]

(***************************************************************************)
(* The request builder and the user service: values before any operation   *)
(***************************************************************************)
NoBuilt == [op |-> "none"]

NoUsers == [id \in Ids |-> NoUser]

NoCalls == [slot \in 1..MaxServiceCalls |-> NoCall]

(***************************************************************************)
(* Initial state: a client as its constructor leaves it, no call started   *)
(***************************************************************************)
Init ==
  /\ \E maxRetries \in 0..MaxRetriesBound, d \in DelayPolicies :
       retryConfig = [maxRetries |-> maxRetries, initialDelay |-> d[1],
                      maxDelay |-> d[2], backoffMultiplier |-> d[3]]
  /\ cfgTimeout = DefaultTimeout
  /\ authToken \in Tokens
  /\ requestInterceptors = <<>>
  /\ responseInterceptors = <<>>
  /\ call = IdleCall
  /\ arrays = << <<>> >>
  /\ pipelines = <<1>>
  /\ exec = IdleExec
  /\ listeners = NoListeners
  /\ emitted = NoEmit
  /\ built = NoBuilt
  /\ users = NoUsers
  /\ svc = NoCalls

(***************************************************************************)
(* Operations of the client                                                *)
(***************************************************************************)
registerRequestInterceptor(kinds) ==
  /\ Len(requestInterceptors) + Len(responseInterceptors) < MaxInterceptors
  /\ \E kind \in kinds :
       requestInterceptors' = Append(requestInterceptors, kind)
  /\ UNCHANGED <<retryConfig, cfgTimeout, authToken, responseInterceptors, call, pipelineVars,
               emitterVars, builderVars, serviceVars>>

addRequestInterceptor == registerRequestInterceptor(RequestInterceptorKinds)

\* the same operation, for the interceptors that touch Authorization and timeout
addRequestInterceptorAuth == registerRequestInterceptor(AuthRequestInterceptorKinds)

setAuthTokenTo(token) ==
  /\ authToken' = token
  /\ UNCHANGED <<retryConfig, cfgTimeout, requestInterceptors, responseInterceptors, call,
               pipelineVars, emitterVars, builderVars, serviceVars>>

setAuthToken == \E token \in SetTokens : setAuthTokenTo(token)

registerResponseInterceptor(kinds) ==
  /\ Len(requestInterceptors) + Len(responseInterceptors) < MaxInterceptors
  /\ \E kind \in kinds :
       responseInterceptors' = Append(responseInterceptors, kind)
  /\ UNCHANGED <<retryConfig, cfgTimeout, authToken, requestInterceptors, call,
               pipelineVars, emitterVars, builderVars, serviceVars>>

addResponseInterceptor == registerResponseInterceptor(ResponseInterceptorKinds)

\* the same operation, for the interceptors that replace the response or raise
\* an AbortError
addResponseInterceptorStatus == registerResponseInterceptor(StatusResponseInterceptorKinds)

startRequest(methods) ==
  /\ call.pc = "idle"
  /\ \E method \in methods :
       call' = beginAttempt([call EXCEPT !.requestConfig = [NoConfig EXCEPT !.method = method]], 0)
  /\ UNCHANGED <<clientVars, pipelineVars, emitterVars, builderVars, serviceVars>>

\* get / post / put / delete: request() up to its first await
startCall == startRequest(Methods)

\* get alone
startGet == startRequest({"GET"})

(***************************************************************************)
(* Steps of the call in flight                                             *)
(***************************************************************************)
\* the awaited request interceptor settles
requestInterceptorSettles ==
  /\ call.pc = "reqInt"
  /\ LET kind == requestInterceptors[call.reqIdx] IN
     IF kind = "throw"
     THEN \* outside the try of fetchWithTimeout: reaches retryWithBackoff as thrown
          \E random \in Randoms :
            call' = attemptFailed(call, RawError("Error", call.attempt), random)
     ELSE call' = afterRequestInterceptor(call,
                     applyRequestInterceptor(kind, call.modifiedConfig))
  /\ UNCHANGED <<clientVars, pipelineVars, emitterVars, builderVars, serviceVars>>

\* setTimeout(() => abortController.abort(), timeout) fires
timerFires ==
  /\ call.timerArmed
  /\ call' = [call EXCEPT !.timerArmed = FALSE, !.aborted = TRUE]
  /\ UNCHANGED <<clientVars, pipelineVars, emitterVars, builderVars, serviceVars>>

\* variant: the timer is left armed when fetch resolves
transportResolvesKeepingTimer ==
  /\ call.pc = "fetch"
  /\ ~call.aborted
  /\ \E status \in Statuses :
       LET c1 == [call EXCEPT !.response = status,
                              !.received = status,
                              !.transport = countOutcome(@, transportClass(status))]
       IN IF Len(responseInterceptors) = 0
          THEN call' = afterResponseInterceptors(c1)
          ELSE call' = [c1 EXCEPT !.pc = "respInt", !.respIdx = 1]
  /\ UNCHANGED <<clientVars, pipelineVars, emitterVars, builderVars, serviceVars>>

\* fetch resolves with a response
transportResolves ==
  /\ call.pc = "fetch"
  /\ ~call.aborted
  /\ \E status \in Statuses :
       LET c1 == [call EXCEPT !.timerArmed = FALSE, !.response = status,
                              !.received = status,
                              !.transport = countOutcome(@, transportClass(status))]
       IN IF Len(responseInterceptors) = 0
          THEN call' = afterResponseInterceptors(c1)
          ELSE call' = [c1 EXCEPT !.pc = "respInt", !.respIdx = 1]
  /\ UNCHANGED <<clientVars, pipelineVars, emitterVars, builderVars, serviceVars>>

\* fetch rejects: a transport failure, or the AbortError of an aborted signal
transportRejects ==
  /\ call.pc = "fetch"
  /\ \E name \in (IF call.aborted THEN {"AbortError"} ELSE {"TypeError"}), random \in Randoms :
       LET c1 == [call EXCEPT !.timerArmed = FALSE,
                              !.transport = countOutcome(@, IF name = "AbortError" THEN "abort" ELSE "net")]
       IN call' = attemptFailed(c1,
                     classifyCaught(RawError(name, call.attempt), call.timeout, call.attempt),
                     random)
  /\ UNCHANGED <<clientVars, pipelineVars, emitterVars, builderVars, serviceVars>>

\* the awaited response interceptor settles
responseInterceptorSettles ==
  /\ call.pc = "respInt"
  /\ LET kind == responseInterceptors[call.respIdx]
         c1 == [call EXCEPT !.response = applyResponseInterceptor(kind, @),
                            !.respTrace = Append(@, <<kind, call.response>>)]
     IN
     IF kind \in {"throw", "throwAbort"}
     THEN \E random \in Randoms :
            call' = attemptFailed(call,
                       classifyCaught(RawError(IF kind = "throw" THEN "Error" ELSE "AbortError",
                                               call.attempt),
                                      call.timeout, call.attempt),
                       random)
     ELSE IF call.respIdx < Len(responseInterceptors)
          THEN call' = [c1 EXCEPT !.respIdx = @ + 1]
          ELSE call' = afterResponseInterceptors(c1)
  /\ UNCHANGED <<clientVars, pipelineVars, emitterVars, builderVars, serviceVars>>

\* safeParseResponseBody settles, and the HttpError is thrown and rethrown
errorBodyParsedOf(contentTypes) ==
  /\ call.pc = "errBody"
  /\ \E contentType \in contentTypes, fails \in BOOLEAN, random \in Randoms :
       LET body == safeParseResponseBody(contentType, fails)
           c1 == [call EXCEPT !.bodyRead = [contentType |-> contentType, fails |-> fails]]
       IN call' = attemptFailed(c1,
                     classifyCaught(HttpError(call.response, body, call.attempt),
                                    call.timeout, call.attempt),
                     random)
  /\ UNCHANGED <<clientVars, pipelineVars, emitterVars, builderVars, serviceVars>>

\* the same, for error responses that carry a JSON body
errorBodyParsed == errorBodyParsedOf({JsonContentType})

\* the same, for error responses of every Content-Type
errorBodyParsedAny == errorBodyParsedOf(ContentTypes)

\* parseResponse settles, back in request()
responseParsed ==
  /\ call.pc = "parse"
  /\ \E outcome \in (IF call.response = 204 THEN {"undefined"}
                     ELSE {"undefined", "json", "text", "throws"}) :
       LET c1 == [call EXCEPT !.parsed = outcome] IN
       IF outcome = "throws"
       THEN call' = finish(c1, requestCatch(RawError("SyntaxError", call.attempt)))
       ELSE call' = finish(c1, requestSuccess(outcome))
  /\ UNCHANGED <<clientVars, pipelineVars, emitterVars, builderVars, serviceVars>>

\* the backoff sleep ends and the loop starts the next attempt
sleepEnds ==
  /\ call.pc = "sleep"
  /\ call' = beginAttempt(call, call.attempt + 1)
  /\ UNCHANGED <<clientVars, pipelineVars, emitterVars, builderVars, serviceVars>>

callStep ==
  \/ requestInterceptorSettles
  \/ timerFires
  \/ transportResolves
  \/ transportRejects
  \/ responseInterceptorSettles
  \/ errorBodyParsed
  \/ responseParsed
  \/ sleepEnds

Next ==
  \/ addRequestInterceptor
  \/ addResponseInterceptor
  \/ startCall
  \/ callStep

Spec == Init /\ [][Next]_vars

(***************************************************************************)
(* The same client followed for its credential token and its timeout: the  *)
(* token can be replaced at any moment, the constructor may have been given *)
(* a timeout, the calls are gets and the backoff delay is zero.            *)
(***************************************************************************)
InitAuth ==
  /\ \E maxRetries \in 0..MaxRetriesBound :
       retryConfig = [maxRetries |-> maxRetries, initialDelay |-> 0,
                      maxDelay |-> 1, backoffMultiplier |-> 2]
  /\ \E timeout \in ConfiguredTimeouts : cfgTimeout = constructorTimeout(timeout)
  /\ authToken \in Tokens
  /\ requestInterceptors = <<>>
  /\ responseInterceptors = <<>>
  /\ call = IdleCall
  /\ arrays = << <<>> >>
  /\ pipelines = <<1>>
  /\ exec = IdleExec
  /\ listeners = NoListeners
  /\ emitted = NoEmit
  /\ built = NoBuilt
  /\ users = NoUsers
  /\ svc = NoCalls

NextAuth ==
  \/ addRequestInterceptorAuth
  \/ addResponseInterceptor
  \/ setAuthToken
  \/ startGet
  \/ callStep

SpecAuth == InitAuth /\ [][NextAuth]_vars

(***************************************************************************)
(* The same client followed for what its response interceptors do to the   *)
(* response: interceptors are registered at any moment, the calls are gets *)
(* and the backoff delay is zero.                                          *)
(***************************************************************************)
InitResponse ==
  /\ \E maxRetries \in 0..MaxRetriesBound :
       retryConfig = [maxRetries |-> maxRetries, initialDelay |-> 0,
                      maxDelay |-> 1, backoffMultiplier |-> 2]
  /\ cfgTimeout = DefaultTimeout
  /\ authToken = ""
  /\ requestInterceptors = <<>>
  /\ responseInterceptors = <<>>
  /\ call = IdleCall
  /\ arrays = << <<>> >>
  /\ pipelines = <<1>>
  /\ exec = IdleExec
  /\ listeners = NoListeners
  /\ emitted = NoEmit
  /\ built = NoBuilt
  /\ users = NoUsers
  /\ svc = NoCalls

NextResponse ==
  \/ addRequestInterceptor
  \/ addResponseInterceptorStatus
  \/ startGet
  \/ callStep
  \/ errorBodyParsedAny

SpecResponse == InitResponse /\ [][NextResponse]_vars

(***************************************************************************)
(* The request builder alone: a client is constructed with a base address  *)
(* and default headers, and requests are built for descriptors.            *)
(***************************************************************************)
InitBuilder ==
  /\ retryConfig = [maxRetries |-> 3, initialDelay |-> 1000, maxDelay |-> 10000,
                    backoffMultiplier |-> 2]
  /\ cfgTimeout = DefaultTimeout
  /\ authToken = ""
  /\ requestInterceptors = <<>>
  /\ responseInterceptors = <<>>
  /\ call = IdleCall
  /\ arrays = << <<>> >>
  /\ pipelines = <<1>>
  /\ exec = IdleExec
  /\ listeners = NoListeners
  /\ emitted = NoEmit
  /\ \E baseURL \in BaseURLs, headers \in DefaultHeaderSets :
       built = [op |-> "constructed", baseURL |-> baseURL, headers |-> headers,
                count |-> 0]
  /\ users = NoUsers
  /\ svc = NoCalls

\* fetchWithTimeout from the end of the request interceptors to the fetch call
fetchCalled ==
  /\ built.op # "none"
  /\ built.count < MaxRequests
  /\ \E config \in Descriptors :
       built' = [op |-> "fetch", baseURL |-> built.baseURL, headers |-> built.headers,
                 count |-> built.count + 1, config |-> config,
                 sent |-> fetchArguments(built.baseURL, built.headers, config)]
  /\ UNCHANGED <<clientVars, call, pipelineVars, emitterVars, serviceVars>>

NextBuilder == fetchCalled

SpecBuilder == InitBuilder /\ [][NextBuilder]_vars

(***************************************************************************)
(* The user service alone: users are created and updated, and an update    *)
(* can be called while another one awaits the repository.                  *)
(***************************************************************************)
InitService ==
  /\ retryConfig = [maxRetries |-> 3, initialDelay |-> 1000, maxDelay |-> 10000,
                    backoffMultiplier |-> 2]
  /\ cfgTimeout = DefaultTimeout
  /\ authToken = ""
  /\ requestInterceptors = <<>>
  /\ responseInterceptors = <<>>
  /\ call = IdleCall
  /\ arrays = << <<>> >>
  /\ pipelines = <<1>>
  /\ exec = IdleExec
  /\ listeners = NoListeners
  /\ emitted = NoEmit
  /\ built = NoBuilt
  /\ users = NoUsers
  /\ svc = NoCalls

\* a slot that holds no call in flight
Free(slot) == svc[slot].pc \in {"idle", "done"}

\* createUser, whole: validation, then repository.create with a fresh id
createUserOf(slot, userData) ==
  /\ Free(slot)
  /\ \E id \in Ids : ~users[id].present
  /\ IF validateUserData(userData) # "ok"
     THEN /\ svc' = [svc EXCEPT ![slot] = [NoCall EXCEPT !.op = "create", !.pc = "done",
                                                         !.outcome = "ValidationError"]]
          /\ UNCHANGED users
     ELSE LET id == CHOOSE i \in Ids : ~users[i].present IN
          /\ users' = [users EXCEPT ![id] = User(trimmedLength(userData.name),
                                                  toLowerCase(trimText(userData.email.text)),
                                                  FALSE)]
          /\ svc' = [svc EXCEPT ![slot] = [NoCall EXCEPT !.op = "create", !.pc = "done",
                                                         !.id = id, !.outcome = "resolved"]]
  /\ UNCHANGED <<clientVars, call, pipelineVars, emitterVars, builderVars>>

createUserFrom(slots, dtos) ==
  \E slot \in slots, userData \in dtos : createUserOf(slot, userData)

\* calls that may overlap
createUser == createUserFrom(1..MaxServiceCalls, SomeDtos)

\* calls made one after the other, with every input
createUserAlone == createUserFrom({1}, CreateDtos)

\* updateUser up to its first await: validation, and findById is called
updateUserOf(slot, id, updates) ==
  /\ Free(slot)
  /\ IF validateUpdateData(updates) # "ok"
     THEN svc' = [svc EXCEPT ![slot] = [NoCall EXCEPT !.op = "update", !.pc = "done",
                                                      !.id = id,
                                                      !.outcome = "ValidationError"]]
     ELSE svc' = [svc EXCEPT ![slot] = [NoCall EXCEPT !.op = "update", !.pc = "read",
                                                      !.id = id, !.updates = updates,
                                                      !.existingUser = findById(id)]]
  /\ UNCHANGED <<clientVars, call, pipelineVars, emitterVars, builderVars, users>>

updateUserFrom(slots, dtos) ==
  \E slot \in slots, id \in Ids, updates \in dtos : updateUserOf(slot, id, updates)

\* calls that may overlap
updateUser == updateUserFrom(1..MaxServiceCalls, SomeDtos)

\* calls made one after the other, with every input
updateUserAlone == updateUserFrom({1}, UpdateDtos)

\* updateUser from the user findById resolved with to the end:
\* repository.update is called and its result returned
updateUserResumes(slot) ==
  /\ svc[slot].pc = "read"
  /\ LET c == svc[slot] IN
     IF ~c.existingUser.present
     THEN /\ svc' = [svc EXCEPT ![slot].pc = "done", ![slot].outcome = "NotFoundError"]
          /\ UNCHANGED users
     ELSE IF ~users[c.id].present
     THEN /\ svc' = [svc EXCEPT ![slot].pc = "done", ![slot].outcome = "DatabaseError"]
          /\ UNCHANGED users
     ELSE /\ users' = [users EXCEPT ![c.id] = mergeUpdate(c.existingUser, c.updates)]
          /\ svc' = [svc EXCEPT ![slot].pc = "done", ![slot].outcome = "resolved"]
  /\ UNCHANGED <<clientVars, call, pipelineVars, emitterVars, builderVars>>

updateUserSettles == \E slot \in 1..MaxServiceCalls : updateUserResumes(slot)

NextService ==
  \/ createUser
  \/ updateUser
  \/ updateUserSettles

SpecService == InitService /\ [][NextService]_vars

\* The user service called with every input, one call at a time
NextValidation ==
  \/ createUserAlone
  \/ updateUserAlone
  \/ updateUserSettles

SpecValidation == InitService /\ [][NextValidation]_vars

\* The transport honours its abort signal
transportAborts == transportRejects /\ call.aborted

\* Interceptors terminate, timers fire, and an aborted fetch rejects.  Nothing
\* makes a fetch that is not aborted settle, and nothing makes the body of a
\* response arrive.
SpecLive ==
  /\ Init /\ [][Next]_vars
  /\ WF_vars(requestInterceptorSettles)
  /\ WF_vars(responseInterceptorSettles)
  /\ WF_vars(timerFires)
  /\ WF_vars(sleepEnds)
  /\ WF_vars(transportAborts)

(***************************************************************************)
(* The pipeline alone: pipelines are derived from one another with         *)
(* transform at any moment, also while an execute awaits a step, and       *)
(* executes follow one another.                                            *)
(***************************************************************************)
InitPipeline ==
  /\ retryConfig = [maxRetries |-> 3, initialDelay |-> 1000, maxDelay |-> 10000,
                    backoffMultiplier |-> 2]
  /\ cfgTimeout = DefaultTimeout
  /\ authToken = ""
  /\ requestInterceptors = <<>>
  /\ responseInterceptors = <<>>
  /\ call = IdleCall
  /\ \E steps \in InitialSteps : arrays = <<steps>>
  /\ pipelines = <<1>>
  /\ exec = IdleExec
  /\ listeners = NoListeners
  /\ emitted = NoEmit
  /\ built = NoBuilt
  /\ users = NoUsers
  /\ svc = NoCalls

transform ==
  /\ Len(pipelines) < MaxPipelines
  /\ \E p \in 1..Len(pipelines), args \in TransformArgs :
       /\ Len(StepsOf(p)) < MaxSteps
       /\ transformOf(p, args[1], args[2])
  /\ UNCHANGED <<clientVars, call, exec, emitterVars, builderVars, serviceVars>>

\* the input sequences of execute
RECURSIVE SeqsUpTo(_)
SeqsUpTo(n) ==
  IF n = 0 THEN {<<>>}
  ELSE LET shorter == SeqsUpTo(n - 1)
       IN shorter \cup {Append(d, r) : d \in {s \in shorter : Len(s) = n - 1}, r \in RecordValues}

\* p.execute(data), up to its first await
execute ==
  /\ exec.pc \in {"idle", "done"}
  /\ \E p \in 1..Len(pipelines), data \in SeqsUpTo(MaxRecords) :
       exec' = runToAwait([IdleExec EXCEPT !.pipeline = p, !.stepsAtStart = StepsOf(p),
                                          !.data = data, !.idx = 1, !.stepIdx = 1,
                                          !.current = IF data = <<>> THEN NoValue ELSE data[1]])
  /\ UNCHANGED <<clientVars, call, arrays, pipelines, emitterVars, builderVars, serviceVars>>

\* the awaited step call settles
stepSettles ==
  /\ exec.pc = "await"
  /\ exec' = afterAwait(exec)
  /\ UNCHANGED <<clientVars, call, arrays, pipelines, emitterVars, builderVars, serviceVars>>

NextPipeline ==
  \/ transform
  \/ execute
  \/ stepSettles

SpecPipeline == InitPipeline /\ [][NextPipeline]_vars

(***************************************************************************)
(* The pipeline constructed from a steps array of the caller's: the        *)
(* constructor stores the array as it is, whatever the names in it.        *)
(***************************************************************************)
\* the steps a pipeline is constructed with: none, or steps as the caller
\* wrote them, a name being any string, the empty one included
ConstructedSteps ==
  {<<>>,
   <<[fn |-> "validate", name |-> NoName]>>,
   <<[fn |-> "normalize", name |-> Name("normalize")],
     [fn |-> "rejecting", name |-> NoName]>>}

InitConstructed ==
  /\ retryConfig = [maxRetries |-> 3, initialDelay |-> 1000, maxDelay |-> 10000,
                    backoffMultiplier |-> 2]
  /\ cfgTimeout = DefaultTimeout
  /\ authToken = ""
  /\ requestInterceptors = <<>>
  /\ responseInterceptors = <<>>
  /\ call = IdleCall
  /\ \E steps \in ConstructedSteps : arrays = <<steps>>
  /\ pipelines = <<1>>
  /\ exec = IdleExec
  /\ listeners = NoListeners
  /\ emitted = NoEmit
  /\ built = NoBuilt
  /\ users = NoUsers
  /\ svc = NoCalls

SpecConstructed == InitConstructed /\ [][NextPipeline]_vars

(***************************************************************************)
(* The event emitter alone: its operations in any order.  emit runs to its *)
(* end before anything else happens, and the listeners do not call the     *)
(* emitter.                                                                *)
(***************************************************************************)
InitEmitter ==
  /\ retryConfig = [maxRetries |-> 3, initialDelay |-> 1000, maxDelay |-> 10000,
                    backoffMultiplier |-> 2]
  /\ cfgTimeout = DefaultTimeout
  /\ authToken = ""
  /\ requestInterceptors = <<>>
  /\ responseInterceptors = <<>>
  /\ call = IdleCall
  /\ arrays = << <<>> >>
  /\ pipelines = <<1>>
  /\ exec = IdleExec
  /\ listeners = NoListeners
  /\ emitted = NoEmit
  /\ built = NoBuilt
  /\ users = NoUsers
  /\ svc = NoCalls

on ==
  /\ listenerCount("userLoggedIn") + listenerCount("dataUpdated") < MaxRegistrations
  /\ \E event \in Events, listener \in ListenerFns : onOf(event, listener)
  /\ UNCHANGED <<clientVars, call, pipelineVars, builderVars, serviceVars>>

off ==
  /\ \E event \in Events, listener \in ListenerFns : offOf(event, listener)
  /\ UNCHANGED <<clientVars, call, pipelineVars, builderVars, serviceVars>>

removeAllListeners ==
  /\ \E event \in Events \cup {Undefined} : removeAllListenersOf(event)
  /\ UNCHANGED <<clientVars, call, pipelineVars, builderVars, serviceVars>>

emit ==
  /\ \E event \in Events, payload \in Payloads : emitOf(event, payload)
  /\ UNCHANGED <<clientVars, call, pipelineVars, builderVars, serviceVars>>

NextEmitter ==
  \/ on
  \/ off
  \/ removeAllListeners
  \/ emit

SpecEmitter == InitEmitter /\ [][NextEmitter]_vars

(***************************************************************************)
(* The emitter with listeners that call it back: between two emits         *)
(* listeners are registered and removed, and an emit runs one listener     *)
(* call at a time; nothing else runs until it returns.                     *)
(***************************************************************************)
InitReentrant ==
  /\ retryConfig = [maxRetries |-> 3, initialDelay |-> 1000, maxDelay |-> 10000,
                    backoffMultiplier |-> 2]
  /\ cfgTimeout = DefaultTimeout
  /\ authToken = ""
  /\ requestInterceptors = <<>>
  /\ responseInterceptors = <<>>
  /\ call = IdleCall
  /\ arrays = << <<>> >>
  /\ pipelines = <<1>>
  /\ exec = IdleExec
  /\ listeners = NoListeners
  /\ emitted = NoDispatch
  /\ built = NoBuilt
  /\ users = NoUsers
  /\ svc = NoCalls

Dispatching == emitted.outcome = "dispatching"

onBetween ==
  /\ ~Dispatching
  /\ listenerCount("userLoggedIn") + listenerCount("dataUpdated") < MaxListeners
  /\ \E event \in Events, listener \in ReentrantFns : onOf(event, listener)
  /\ UNCHANGED <<clientVars, call, pipelineVars, builderVars, serviceVars>>

offBetween ==
  /\ ~Dispatching
  /\ \E event \in Events, listener \in ReentrantFns :
       /\ listeners[event].present /\ indexOf(listeners[event].list, listener) # 0
       /\ offOf(event, listener)
  /\ UNCHANGED <<clientVars, call, pipelineVars, builderVars, serviceVars>>

\* emit(event, payload) up to the first listener call
emitStarts ==
  /\ ~Dispatching
  /\ \E event \in Events, payload \in Payloads :
       emitted' = IF listeners[event].present
                  THEN [NoDispatch EXCEPT !.event = event, !.payload = payload,
                                          !.outcome = "dispatching", !.index = 1,
                                          !.atStart = listeners[event].list]
                  ELSE [NoDispatch EXCEPT !.event = event, !.payload = payload,
                                          !.outcome = "returned"]
  /\ UNCHANGED listeners
  /\ UNCHANGED <<clientVars, call, pipelineVars, builderVars, serviceVars>>

\* one turn of the loop of emit: the listener at the iterator's position is
\* called, and does what it does to the emitter
listenerCalled ==
  /\ Dispatching
  /\ emitted.index <= Len(iterated(emitted))
  /\ LET list == iterated(emitted)
         listener == list[emitted.index]
     IN /\ listener = "resubscriber" =>
             listenerCount("userLoggedIn") + listenerCount("dataUpdated") <= MaxListeners
        /\ listeners' = listenerEffect(listener, emitted.event, listeners)
        /\ emitted' = [emitted EXCEPT
                          !.invoked = Append(@, listener),
                          !.logged = IF throwsError(listener) THEN @ + 1 ELSE @,
                          !.index = @ + 1,
                          !.detached = @ \/ listener = "clearer",
                          !.own = IF ~emitted.detached /\ listener = "clearer" THEN list ELSE @]
  /\ UNCHANGED <<clientVars, call, pipelineVars, builderVars, serviceVars>>

\* the iterator is past the end of the array: emit returns
emitReturns ==
  /\ Dispatching
  /\ emitted.index > Len(iterated(emitted))
  /\ emitted' = [emitted EXCEPT !.outcome = "returned"]
  /\ UNCHANGED listeners
  /\ UNCHANGED <<clientVars, call, pipelineVars, builderVars, serviceVars>>

NextReentrant ==
  \/ onBetween
  \/ offBetween
  \/ emitStarts
  \/ listenerCalled
  \/ emitReturns

SpecReentrant == InitReentrant /\ [][NextReentrant]_vars

(***************************************************************************)
(* Properties                                                              *)
(***************************************************************************)
Done == call.pc = "done"

\* no registered interceptor raises: every attempt reaches the transport and
\* every response reaches the status check
NoThrowingInterceptor ==
  /\ \A i \in 1..Len(requestInterceptors) : requestInterceptors[i] # "throw"
  /\ \A i \in 1..Len(responseInterceptors) : responseInterceptors[i] # "throw"

\* C1: a call never rejects; when it has ended, its promise is resolved with an
\* envelope whose status is 'success' or 'error', never 'loading', whatever the
\* transport and the interceptors did.
C1_EnvelopeTotality ==
  /\ call.result.state # "rejected"
  /\ call.result.status # "loading"
  /\ Done => /\ call.result.state = "resolved"
             /\ call.result.status \in {"success", "error"}

\* a call ended by a request interceptor that threw: the transport was never called
C1_Witness ==
  /\ Done /\ call.fetchCalls = 0
  /\ call.result.state = "resolved" /\ call.result.status = "error"

\* C2: when every attempt of a call reached the transport and every transport
\* outcome was a retryable failure (a rejection, or a 5xx response), the
\* transport was called exactly maxRetries + 1 times and the envelope is
\* 'error' with the error of the last attempt.
C2_RetryExhaustion ==
  (/\ Done /\ NoThrowingInterceptor
   /\ call.transport.ok = 0 /\ call.transport.other = 0)
  => /\ call.fetchCalls = retryConfig.maxRetries + 1
     /\ call.result.status = "error"
     /\ call.result.error = call.attemptError
     /\ call.result.error.at = retryConfig.maxRetries
     /\ call.transport.last = "net" => call.result.error.type = "network"
     /\ call.transport.last = "5xx" => /\ call.result.error.type = "http"
                                       /\ call.result.error.statusCode = call.response

C2_Witness ==
  /\ Done /\ NoThrowingInterceptor
  /\ call.transport.ok = 0 /\ call.transport.other = 0
  /\ retryConfig.maxRetries = 2 /\ call.fetchCalls = 3
  /\ call.result.error.type = "http"

\* C3: an attempt that ended in an HTTP error is followed by a sleep and
\* another attempt only if its status is in 500..599 and an attempt remains;
\* after any other status the call has ended with an 'error' envelope carrying
\* that HTTP error, and if no earlier transport outcome was a retryable failure
\* the transport was called exactly once.
C3_NonRetryableShortCircuit ==
  call.attemptError.type = "http" =>
    LET status == call.attemptError.statusCode IN
    /\ call.pc \in {"sleep", "done"}
    /\ call.pc = "sleep" => /\ status >= 500 /\ status <= 599
                            /\ call.attempt < retryConfig.maxRetries
    /\ ~(status >= 500 /\ status <= 599) =>
         /\ Done
         /\ call.result.status = "error"
         /\ call.result.error = call.attemptError
         /\ call.transport.fail = 0 => call.fetchCalls = 1

C3_Witness ==
  /\ Done /\ retryConfig.maxRetries = 2 /\ call.fetchCalls = 1
  /\ call.result.status = "error"
  /\ call.result.error.type = "http" /\ call.result.error.statusCode = 404

\* C4: an attempt that ended in a timeout error is never followed by another
\* attempt: the call has ended with an 'error' envelope carrying that error.
C4_TimeoutNotRetried ==
  call.attemptError.type = "timeout" =>
    /\ Done
    /\ call.result.status = "error"
    /\ call.result.error = call.attemptError
    /\ call.result.error.timeoutMs = call.timeout

\* a timeout in the first attempt of a call that had two retries left
C4_Witness ==
  /\ Done /\ call.result.error.type = "timeout"
  /\ call.attempt = 0 /\ retryConfig.maxRetries = 2

\* the transport failed retryably k-1 times and then answered 2xx, and no
\* interceptor interfered
C5_Scenario ==
  /\ Done /\ NoThrowingInterceptor
  /\ call.transport.ok = 1 /\ call.transport.other = 0 /\ call.transport.last = "2xx"

\* C5 as stated: k-1 retryable transport failures followed by a 2xx response
\* give a 'success' envelope after exactly k transport calls.
C5_SuccessAfterRetries_AsStated ==
  C5_Scenario => /\ call.result.status = "success"
                 /\ call.fetchCalls = call.transport.fail + 1

\* C5, amended: the same, provided parseResponse can read the body of the 2xx
\* response; the payload is then what parseResponse returned and no error of
\* an earlier attempt is reported.
C5_SuccessAfterRetries ==
  (C5_Scenario /\ call.parsed # "throws")
  => /\ call.result.status = "success"
     /\ call.result.error = NoError
     /\ call.result.data = call.parsed
     /\ call.fetchCalls = call.transport.fail + 1
     /\ call.fetchCalls <= retryConfig.maxRetries + 1

\* two retryable failures, then a 204 whose payload is undefined
C5_Witness ==
  /\ C5_Scenario /\ call.parsed # "throws"
  /\ call.transport.fail = 2 /\ call.fetchCalls = 3 /\ call.response = 204
  /\ call.result.status = "success"

\* C6: whenever a call ends with an 'error' envelope carrying a network error,
\* maxRetries + 1 attempts were made.
C6_NetworkErrorsRetried ==
  (Done /\ call.result.status = "error" /\ call.result.error.type = "network")
  => call.attempt = retryConfig.maxRetries

\* C7: every call that was started eventually resolves, after at most
\* maxRetries + 1 attempts and maxRetries backoff sleeps.
C7_CallResolves ==
  /\ [](call.attempt <= retryConfig.maxRetries /\ call.sleepCount <= retryConfig.maxRetries)
  /\ (call.pc # "idle") ~> Done

\* C8: the delay slept after attempt i lies in
\* [0, min(initialDelay * multiplier^i, maxDelay)], and so never exceeds
\* maxDelay (delays are counted in units of 1/RandomScale ms).
C8_BackoffBound ==
  call.pc = "sleep" =>
    /\ call.lastDelay >= 0
    /\ call.lastDelay <= RandomScale * retryConfig.maxDelay
    /\ call.lastDelay <= RandomScale * retryConfig.initialDelay
                           * Pow(retryConfig.backoffMultiplier, call.attempt)

\* the second sleep of a policy whose exponential delay exceeds maxDelay there
C8_Witness ==
  /\ call.pc = "sleep" /\ call.attempt = 1 /\ call.lastDelay > 0
  /\ retryConfig.initialDelay * Pow(retryConfig.backoffMultiplier, 1) > retryConfig.maxDelay

\* C9: when every attempt of a call failed with a retryable error and
\* maxRetries >= 1, the call waited at least initialDelay in backoff (in units
\* of 1/RandomScale ms).
C9_MinimumBackoffWait ==
  (/\ Done /\ retryConfig.maxRetries >= 1
   /\ call.sleepCount = retryConfig.maxRetries
   /\ call.result.status = "error" /\ call.result.error = call.attemptError
   /\ \/ call.result.error.type = "network"
      \/ call.result.error.type = "http" /\ call.result.error.statusCode >= 500)
  => call.slept >= RandomScale * retryConfig.initialDelay

\* the marks of the interceptors among the first n registered
Marks(n) == SelectSeq(SubSeq(requestInterceptors, 1, n), LAMBDA k : k \in {"A", "B"})

\* C10: request interceptors run one at a time in registration order, each on
\* the descriptor the previous one returned: the interceptor being awaited was
\* handed exactly the modifications of all those registered before it, the
\* request handed to the transport carries the modifications of all that ran,
\* and all registered ones have run when the transport is called.
C10_RequestInterceptorOrder ==
  /\ [](/\ call.pc = "reqInt" =>
             /\ call.reqIdx \in 1..Len(requestInterceptors)
             /\ call.modifiedConfig.headers.trace = Marks(call.reqIdx - 1)
        /\ call.pc = "fetch" =>
             /\ call.lastSent = call.modifiedConfig
             /\ call.lastSent.headers.trace = Marks(call.reqIdx))
  /\ [][(call.pc # "fetch" /\ call'.pc = "fetch")
         => call'.reqIdx = Len(requestInterceptors)]_vars

\* A then B were registered, and the request sent carries A's mark, then B's
C10_Witness ==
  /\ call.pc = "fetch"
  /\ requestInterceptors = <<"A", "B">>
  /\ call.lastSent.headers.trace = <<"A", "B">>

\* a request interceptor that sets its own Authorization header has run in
\* the current attempt
AuthInterceptorRan ==
  \E i \in 1..call.reqIdx : i <= Len(requestInterceptors) /\ requestInterceptors[i] = "auth"

\* C11: when a request interceptor has set its own Authorization header, the
\* request handed to the transport carries that value, also when a token was
\* injected before the interceptors ran.
C11_InterceptorAuthorizationWins ==
  (call.pc = "fetch" /\ AuthInterceptorRan)
  => call.lastSent.headers.Authorization = <<"custom">>

\* a token was injected, and the request sent carries the interceptor's header
C11_Witness ==
  /\ call.pc = "fetch" /\ AuthInterceptorRan
  /\ call.injected = <<"Bearer", "t1">>
  /\ call.lastSent.headers.Authorization = <<"custom">>

\* the Authorization header injection leaves for a token
ExpectedAuthorization(token) ==
  IF token = "" THEN NoAuthorization ELSE <<"Bearer", token>>

\* a step in which an attempt of the call starts
AttemptStarts ==
  \/ call.pc = "idle" /\ call'.pc # "idle"
  \/ call.pc = "sleep" /\ call'.pc # "sleep"

\* C12: after setAuthToken(t), getAuthToken() is t; a request that starts
\* reaches the first request interceptor (or the transport, when there is
\* none) with Authorization 'Bearer <token>' for the token then in force, and
\* with no Authorization header when that token is empty.
C12_TokenInForce ==
  [][/\ \A t \in SetTokens : setAuthTokenTo(t) => getAuthToken' = t
     /\ AttemptStarts =>
          /\ call'.injected = ExpectedAuthorization(getAuthToken)
          /\ call'.pc = "reqInt" =>
               /\ call'.reqIdx = 1
               /\ call'.modifiedConfig.headers.Authorization
                    = ExpectedAuthorization(getAuthToken)
          /\ call'.pc = "fetch" =>
               call'.lastSent.headers.Authorization = ExpectedAuthorization(getAuthToken)]_vars

\* the first interceptor is awaited with the token that only setAuthToken gives
C12_Witness ==
  /\ call.pc = "reqInt" /\ call.reqIdx = 1
  /\ getAuthToken = "t2"
  /\ call.modifiedConfig.headers.Authorization = <<"Bearer", "t2">>

\* C13: every request a call sends carries the Authorization header injected
\* when the call started, whatever setAuthToken did since, unless an
\* interceptor replaced the header.
C13_TokenNotRetroactive ==
  (call.pc = "fetch" /\ ~AuthInterceptorRan)
  => call.lastSent.headers.Authorization = call.injectedFirst

C15_TimeoutRecorded ==
  (Done /\ call.result.error.type = "timeout")
  => /\ call.lastSent.timeout # NoTimeout
          => call.result.error.timeoutMs = call.lastSent.timeout
     /\ call.lastSent.timeout = NoTimeout
          => /\ call.result.error.timeoutMs = cfgTimeout
             /\ cfgTimeout \in {DefaultTimeout} \cup (ConfiguredTimeouts \ {NoTimeout})

\* an interceptor set the override to 0 ms on a client configured with 50 ms
C15_Witness ==
  /\ Done /\ call.result.error.type = "timeout"
  /\ cfgTimeout = 50 /\ call.lastSent.timeout = 0
  /\ call.result.error.timeoutMs = 0

(***************************************************************************)
(* Properties of the pipeline                                              *)
(***************************************************************************)
ExecuteDone == exec.pc = "done"

\* one record taken through the steps from step n on: whether every step
\* returned, the value reached, and the index of the step that raised
RECURSIVE RunRecord(_, _, _)
RunRecord(steps, n, x) ==
  IF n > Len(steps) THEN [ok |-> TRUE, value |-> x, at |-> 0]
  ELSE LET out == stepCall(steps[n].fn, x)
       IN IF out.kind = "return" THEN RunRecord(steps, n + 1, out.value)
          ELSE [ok |-> FALSE, value |-> x, at |-> n]

\* the outputs of the records of data that pass every step, in input order
RECURSIVE SuccessesOf(_, _)
SuccessesOf(steps, data) ==
  IF data = <<>> THEN <<>>
  ELSE LET o == RunRecord(steps, 1, Head(data))
       IN (IF o.ok THEN <<o.value>> ELSE <<>>) \o SuccessesOf(steps, Tail(data))

\* the records of data that some step raises for, with the name of that step,
\* in input order
RECURSIVE FailuresOf(_, _)
FailuresOf(steps, data) ==
  IF data = <<>> THEN <<>>
  ELSE LET o == RunRecord(steps, 1, Head(data))
       IN (IF o.ok THEN <<>> ELSE <<[originalData |-> Head(data), step |-> steps[o.at].name]>>)
          \o FailuresOf(steps, Tail(data))

Increasing(seq) == \A a, b \in DOMAIN seq : a < b => seq[a] < seq[b]

\* the steps called for the record at input position i, in call order
StepsCalledFor(i) ==
  LET sel == SelectSeq(exec.calls, LAMBDA c : c.record = i)
  IN [n \in 1..Len(sel) |-> sel[n].step]

\* C16: the result of execute has successCount = length(successful),
\* failureCount = length(failed), totalCount = length(records) and
\* successCount + failureCount = totalCount; every input position is behind
\* exactly one entry of exactly one of the two lists.
C16_CountsPartition ==
  ExecuteDone =>
    LET r == exec.result IN
      /\ r.successCount = Len(r.successful)
      /\ r.failureCount = Len(r.failed)
      /\ r.totalCount = Len(exec.data)
      /\ r.successCount + r.failureCount = r.totalCount
      /\ Len(exec.successFrom) = Len(r.successful)
      /\ Len(exec.failedFrom) = Len(r.failed)
      /\ \A i \in 1..Len(exec.data) :
           Cardinality({k \in DOMAIN exec.successFrom : exec.successFrom[k] = i})
             + Cardinality({k \in DOMAIN exec.failedFrom : exec.failedFrom[k] = i}) = 1

\* a batch with a duplicated record, one success and two failures
C16_Witness ==
  /\ ExecuteDone /\ Len(exec.data) = 3
  /\ exec.data[1] = exec.data[3]
  /\ exec.result.successCount = 1 /\ exec.result.failureCount = 2

\* C17: both lists of the result are in input order: successful holds the
\* outputs of the records that pass every step, failed the records that some
\* step raises for, each in the order of the input.
C17_OrderPreserved ==
  ExecuteDone =>
    /\ exec.result.successful = SuccessesOf(StepsOf(exec.pipeline), exec.data)
    /\ [k \in DOMAIN exec.result.failed |->
          [originalData |-> exec.result.failed[k].originalData,
           step |-> exec.result.failed[k].step]]
         = FailuresOf(StepsOf(exec.pipeline), exec.data)
    /\ Increasing(exec.successFrom)
    /\ Increasing(exec.failedFrom)

\* [r1, r2, r3] with only r2 failing, at 'validate', after a step changed it
C17_Witness ==
  /\ ExecuteDone
  /\ exec.successFrom = <<1, 3>> /\ exec.failedFrom = <<2>>
  /\ exec.result.failed[1].step = Name("validate")
  /\ exec.result.successful[1] # exec.data[1]
  /\ exec.result.successful = <<RunRecord(StepsOf(exec.pipeline), 1, exec.data[1]).value,
                                RunRecord(StepsOf(exec.pipeline), 1, exec.data[3]).value>>

\* C18: transform adds a pipeline whose steps are those of the pipeline it is
\* called on followed by the new step, and leaves the steps of every existing
\* pipeline as they were; an execute runs, to its result, on the steps its
\* pipeline had when it was called, whatever was derived meanwhile.
C18_TransformLeavesOriginal ==
  /\ [](exec.pc # "idle" =>
          /\ StepsOf(exec.pipeline) = exec.stepsAtStart
          /\ ExecuteDone =>
               /\ exec.result.successful = SuccessesOf(exec.stepsAtStart, exec.data)
               /\ exec.result.successCount + Len(FailuresOf(exec.stepsAtStart, exec.data))
                    = Len(exec.data))
  /\ [][pipelines' # pipelines =>
          /\ Len(pipelines') = Len(pipelines) + 1
          /\ \A q \in 1..Len(pipelines) :
               /\ pipelines'[q] = pipelines[q]
               /\ arrays'[pipelines'[q]] = StepsOf(q)
          /\ \E p \in 1..Len(pipelines), args \in TransformArgs :
               arrays'[pipelines'[Len(pipelines')]]
                 = Append(StepsOf(p), [fn |-> args[1],
                                       name |-> stepName(args[2], args[1], Len(StepsOf(p)))])]_vars

\* two pipelines were derived from pipeline 1, which has one step and is
\* executing
C18_Witness ==
  /\ Len(pipelines) = 3
  /\ Len(StepsOf(1)) = 1
  /\ SubSeq(StepsOf(2), 1, 1) = StepsOf(1) /\ Len(StepsOf(2)) = 2
  /\ SubSeq(StepsOf(3), 1, 1) = StepsOf(1) /\ Len(StepsOf(3)) = 2
  /\ StepsOf(2) # StepsOf(3)
  /\ exec.pc = "await" /\ exec.pipeline = 1 /\ exec.idx = 2

\* C19: the originalData of a failed entry is the input record itself, also
\* when the steps before the failing one changed the value.
C19_OriginalDataPristine ==
  /\ \A k \in DOMAIN exec.failed :
       exec.failed[k].originalData = exec.data[exec.failedFrom[k]]
  /\ ExecuteDone =>
       \A k \in DOMAIN exec.result.failed :
         exec.result.failed[k].originalData = exec.data[exec.failedFrom[k]]

\* a record failed at the third step, which was given another value than the
\* record
C19_Witness ==
  /\ ExecuteDone
  /\ \E k \in DOMAIN exec.result.failed :
       LET o == RunRecord(StepsOf(exec.pipeline), 1, exec.data[exec.failedFrom[k]])
       IN /\ o.at = 3
          /\ o.value # exec.data[exec.failedFrom[k]]
          /\ exec.result.failed[k].originalData = exec.data[exec.failedFrom[k]]

\* C20: a failed entry names the first step that raised for its record; the
\* steps called for that record are the steps up to that one, in declared
\* order, and none after it; every other record of the batch is taken through
\* the steps all the same.
C20_FirstFailingStep ==
  ExecuteDone =>
    LET steps == StepsOf(exec.pipeline) IN
      /\ \A k \in DOMAIN exec.result.failed :
           LET o == RunRecord(steps, 1, exec.data[exec.failedFrom[k]])
           IN /\ ~o.ok
              /\ exec.result.failed[k].step = steps[o.at].name
              /\ StepsCalledFor(exec.failedFrom[k]) = [n \in 1..o.at |-> n]
      /\ \A i \in 1..Len(exec.data) :
           LET o == RunRecord(steps, 1, exec.data[i])
           IN o.ok => StepsCalledFor(i) = [n \in 1..Len(steps) |-> n]

\* the first record failed at the first of several steps and a later record
\* went through all of them
C20_Witness ==
  /\ ExecuteDone
  /\ Len(StepsOf(exec.pipeline)) >= 2
  /\ exec.failedFrom = <<1>>
  /\ RunRecord(StepsOf(exec.pipeline), 1, exec.data[1]).at = 1
  /\ exec.successFrom # <<>>

\* the entry execute produces for a batch made of the record x alone
AloneEntry(steps, x) ==
  LET o == RunRecord(steps, 1, x)
  IN IF o.ok THEN [list |-> "successful", value |-> o.value]
     ELSE [list |-> "failed",
           value |-> [originalData |-> x,
                      error |-> coerceError(stepCall(steps[o.at].fn, o.value).error),
                      step |-> steps[o.at].name]]

\* C21: the entry a record gets in the result, a success value or a failure
\* with its step name and error, is the entry the same pipeline gives that
\* record alone, whatever the other records of the batch are.
C21_RecordsIndependent ==
  ExecuteDone =>
    LET steps == StepsOf(exec.pipeline) IN
      /\ Len(exec.successFrom) + Len(exec.failedFrom) = Len(exec.data)
      /\ \A k \in DOMAIN exec.result.successful :
           AloneEntry(steps, exec.data[exec.successFrom[k]])
             = [list |-> "successful", value |-> exec.result.successful[k]]
      /\ \A k \in DOMAIN exec.result.failed :
           AloneEntry(steps, exec.data[exec.failedFrom[k]])
             = [list |-> "failed", value |-> exec.result.failed[k]]

\* the same record before and after a record that succeeds with a changed
\* value: it fails both times with the same entry, whose error was a rejection
\* with a string
C21_Witness ==
  /\ ExecuteDone
  /\ exec.failedFrom = <<1, 3>> /\ exec.successFrom = <<2>>
  /\ exec.data[1] = exec.data[3]
  /\ exec.result.failed[1] = exec.result.failed[2]
  /\ exec.result.failed[1].error = [instanceOfError |-> TRUE, name |-> "Error", message |-> "bad"]
  /\ exec.result.successful[1] # exec.data[2]

\* the label of position k
StepLabel(k) == [text |-> "step-", k |-> k]

\* C22 as stated: every step added by transform without a name is named
\* 'step-k', k its position in the new pipeline.
C22_PositionalLabel_AsStated ==
  [][\A p \in 1..Len(pipelines), fn \in Fns :
       transformOf(p, fn, "") =>
         arrays'[pipelines'[Len(pipelines')]][Len(StepsOf(p)) + 1].name = StepLabel(Len(StepsOf(p)) + 1)]_vars

\* C22: a step added by transform without a name is named after its function
\* when the function has a name, and 'step-k' otherwise, k its position in the
\* new pipeline; a positional label stands at its own position in every
\* pipeline, and it is what a failed entry reports when that step raises.
C22_PositionalLabel ==
  /\ [][\A p \in 1..Len(pipelines), fn \in Fns :
          transformOf(p, fn, "") =>
            arrays'[pipelines'[Len(pipelines')]][Len(StepsOf(p)) + 1].name
              = IF fnName(fn) = "" THEN StepLabel(Len(StepsOf(p)) + 1)
                ELSE Name(fnName(fn))]_vars
  /\ [](\A q \in 1..Len(pipelines) : \A n \in 1..Len(StepsOf(q)) :
          StepsOf(q)[n].name.text = "step-" => StepsOf(q)[n].name = StepLabel(n))
  /\ [](ExecuteDone =>
          \A k \in DOMAIN exec.result.failed :
            LET o == RunRecord(StepsOf(exec.pipeline), 1, exec.data[exec.failedFrom[k]])
            IN StepsOf(exec.pipeline)[o.at].name.text = "step-"
                 => exec.result.failed[k].step = StepLabel(o.at))

\* a record failed at the second step, which was added without a name
C22_Witness ==
  /\ ExecuteDone
  /\ exec.result.failed # <<>>
  /\ exec.result.failed[1].step = StepLabel(2)
  /\ StepsOf(exec.pipeline)[2].name = StepLabel(2)

(***************************************************************************)
(* Properties of the event emitter                                         *)
(***************************************************************************)
\* the number of entries of seq that satisfy Test
CountOf(seq, Test(_)) == Cardinality({i \in DOMAIN seq : Test(seq[i])})

\* C23: on appends the listener to the registrations of its event; emit calls
\* the registrations of its event, one call each, in that order, each with the
\* payload, calls nothing else, and returns; without a registration for the
\* event it calls nothing and returns.
C23_EmitInRegistrationOrder ==
  [][/\ \A e \in Events, l \in ListenerFns :
          onOf(e, l) => listeners'[e].list = Append(listeners[e].list, l)
     /\ \A e \in Events, p \in Payloads :
          emitOf(e, p) =>
            /\ emitted'.outcome = "returned"
            /\ emitted'.invoked =
                 [i \in 1..Len(listeners[e].list) |->
                    [listener |-> listeners[e].list[i], payload |-> p]]
            /\ ~listeners[e].present => emitted'.invoked = <<>>]_vars

\* the same listener registered twice for one event was called twice with the
\* payload while another event has a listener, which was not called
C23_Witness ==
  /\ emitted.outcome = "returned"
  /\ emitted.event = "userLoggedIn" /\ emitted.payload = "p2"
  /\ listeners["userLoggedIn"].list = <<"listener1", "listener1">>
  /\ listeners["dataUpdated"].list = <<"listener2">>
  /\ emitted.invoked = <<[listener |-> "listener1", payload |-> "p2"],
                         [listener |-> "listener1", payload |-> "p2"]>>

\* C24: emit never ends by throwing, and it calls every registration of its
\* event with the payload, those behind a listener that throws included; each
\* throw is logged.
C24_ListenerFailureIsolated ==
  /\ [](emitted.outcome \in {"none", "returned"})
  /\ [][\A e \in Events, p \in Payloads :
          emitOf(e, p) =>
            /\ Len(emitted'.invoked) = Len(listeners[e].list)
            /\ \A i \in 1..Len(listeners[e].list) :
                 throwsError(listeners[e].list[i]) =>
                   \A j \in (i + 1)..Len(listeners[e].list) :
                     emitted'.invoked[j] = [listener |-> listeners[e].list[j], payload |-> p]
            /\ emitted'.logged = CountOf(listeners[e].list, throwsError)]_vars

\* the first and the last listener threw, the one between them was called
C24_Witness ==
  /\ emitted.outcome = "returned" /\ emitted.logged = 2
  /\ Len(emitted.invoked) = 3
  /\ emitted.invoked[1].listener = "errorListener"
  /\ emitted.invoked[2].listener = "listener1"
  /\ emitted.invoked[3].listener = "errorListener"

\* list without its entry at index i
Without(list, i) == [n \in 1..(Len(list) - 1) |-> IF n < i THEN list[n] ELSE list[n + 1]]

\* C25: on raises listenerCount of its event by one; off lowers it by exactly
\* one when the listener is registered for the event, taking out one
\* registration of that listener and keeping the others in order, and changes
\* nothing otherwise; removeAllListeners brings it to zero; neither touches
\* the count of another event; emit calls each listener once per registration
\* held, so a listener added again after its removal is called once.
C25_ListenerCount ==
  [][/\ \A e \in Events, l \in ListenerFns :
          /\ onOf(e, l) =>
               /\ listenerCount(e)' = listenerCount(e) + 1
               /\ \A o \in Events \ {e} : listenerCount(o)' = listenerCount(o)
          /\ offOf(e, l) =>
               IF \E i \in 1..listenerCount(e) : listeners[e].list[i] = l
                 THEN /\ listenerCount(e)' = listenerCount(e) - 1
                      /\ \E i \in 1..listenerCount(e) :
                           /\ listeners[e].list[i] = l
                           /\ listeners'[e].list = Without(listeners[e].list, i)
                      /\ \A o \in Events \ {e} : listeners'[o] = listeners[o]
                 ELSE listeners' = listeners
     /\ \A e \in Events : removeAllListenersOf(e) => listenerCount(e)' = 0
     /\ \A e \in Events, p \in Payloads :
          emitOf(e, p) =>
            \A l \in ListenerFns :
              CountOf(emitted'.invoked, LAMBDA c : c.listener = l)
                = CountOf(listeners[e].list, LAMBDA r : r = l)]_vars

\* off took out the last registration of an event: the list is there, empty
C25_Witness ==
  /\ listeners["userLoggedIn"].present
  /\ listeners["userLoggedIn"].list = <<>>
  /\ listenerCount("userLoggedIn") = 0
  /\ listenerCount("dataUpdated") = 2

\* C26: removeAllListeners(e) leaves e without listeners and every other event
\* with the listeners it had, in the same order; removeAllListeners() leaves
\* every event without listeners; an emit of an event without listeners calls
\* nothing.
C26_RemoveAllListeners ==
  [][/\ \A e \in Events :
          removeAllListenersOf(e) =>
            /\ listenerCount(e)' = 0
            /\ \A o \in Events \ {e} : listeners'[o] = listeners[o]
     /\ removeAllListenersOf(Undefined) => \A e \in Events : listenerCount(e)' = 0
     /\ \A e \in Events, p \in Payloads :
          (emitOf(e, p) /\ listenerCount(e) = 0) => emitted'.invoked = <<>>]_vars

\* an event whose listeners were called by an emit has been cleared and emitted
\* again, the other event kept its two listeners
C26_Witness ==
  /\ ~listeners["userLoggedIn"].present
  /\ listeners["dataUpdated"].list = <<"listener2", "listener1">>
  /\ emitted.event = "userLoggedIn" /\ emitted.outcome = "returned"
  /\ emitted.invoked = <<>>

(***************************************************************************)
(* Properties of the response path of the client                           *)
(***************************************************************************)
\* a step in which fetchWithTimeout inspects the status of the response
StatusInspected ==
  call.pc \in {"fetch", "respInt"} /\ call'.pc \in {"errBody", "parse"}

\* the status of the response an interceptor returned, from its entry in the
\* list of the interceptors that returned
ReturnedStatus(entry) ==
  IF entry[1] = "to200" THEN 200 ELSE IF entry[1] = "to500" THEN 500 ELSE entry[2]

\* C27: the response interceptors return one at a time; when the status is
\* inspected every registered interceptor has returned, in registration
\* order, the first one given the response of the transport, whatever its
\* status, and each other one the response the one before it returned; the
\* status inspected is that of the response the last one returned.
C27_ResponseInterceptorsBeforeStatus ==
  [][/\ Len(call'.respTrace) <= Len(call.respTrace) + 1
     /\ StatusInspected =>
          LET n == Len(responseInterceptors)
              t == call'.respTrace
              final == IF n = 0 THEN call'.received ELSE ReturnedStatus(t[n])
          IN /\ Len(t) = n
             /\ \A i \in 1..n :
                  /\ t[i][1] = responseInterceptors[i]
                  /\ t[i][2] = IF i = 1 THEN call'.received ELSE ReturnedStatus(t[i - 1])
             /\ call'.response = final
             /\ (call'.pc = "parse") = ok(final)]_vars

\* a 200 of the transport went through two interceptors, the second returned
\* a 500, and the attempt is an HTTP error
C27_Witness ==
  /\ call.pc = "errBody"
  /\ call.received = 200 /\ call.response = 500
  /\ call.respTrace = << <<"pass", 200>>, <<"to500", 200>> >>

\* C28: an envelope carries a timeout error only if the timer of the failing
\* attempt fired.
C28_TimeoutOnlyWhenElapsed ==
  (Done /\ call.result.error.type = "timeout") => call.aborted

\* C29: the interceptors that run in an attempt of a call are those that were
\* registered when the call started: in every attempt the status of the
\* response is inspected after exactly as many response interceptors as were
\* registered at the start of the call, an interceptor registered while the
\* call was in flight not being among them.
C29_InterceptorsReadAtStart ==
  call.pc \in {"errBody", "parse"} => Len(call.respTrace) = call.respAtStart

\* the call is within an attempt
InAttempt == call.pc \in {"reqInt", "fetch", "respInt", "errBody", "parse"}

\* the error is one the retry loop goes on after
Retryable(error) ==
  \/ error.type = "network"
  \/ error.type = "http" /\ error.statusCode >= 500 /\ error.statusCode <= 599

\* C30: attempt i of a call is preceded by exactly i sleeps, none for the
\* first; a sleep follows attempt i only when its error is retryable and
\* i < maxRetries, its delay is the one computed for index i, and it is
\* followed by attempt i + 1; an attempt that fails with an error that is not
\* retryable, or as attempt maxRetries, ends the call in that step, and a call
\* that has ended has slept once per attempt but the last.
C30_AttemptsAndSleepsAlternate ==
  /\ [](/\ InAttempt => call.sleepCount = call.attempt
        /\ Done => call.sleepCount = call.attempt
        /\ call.pc = "sleep" =>
             /\ call.sleepCount = call.attempt + 1
             /\ call.attempt < retryConfig.maxRetries
             /\ Retryable(call.attemptError)
             /\ \E random \in Randoms :
                  call.lastDelay = random * Min(retryConfig.initialDelay
                                                  * Pow(retryConfig.backoffMultiplier, call.attempt),
                                                retryConfig.maxDelay))
  /\ [][/\ (call.pc = "sleep" /\ call' # call) =>
             (InAttempt' /\ call'.attempt = call.attempt + 1)
        /\ call'.attempt # call.attempt => call.pc = "sleep"
        /\ call'.sleepCount # call.sleepCount => (InAttempt /\ call'.pc = "sleep")
        /\ (InAttempt /\ call'.attemptError # NoError
              /\ (~Retryable(call'.attemptError) \/ call.attempt = retryConfig.maxRetries))
             => Done']_vars

\* three attempts with a sleep of more than 0 ms between them, the last one
\* failed as attempt maxRetries
C30_Witness ==
  /\ Done /\ call.result.status = "error"
  /\ retryConfig.maxRetries = 2 /\ call.attempt = 2
  /\ call.fetchCalls = 3 /\ call.sleepCount = 2
  /\ call.slept > 0

\* the kinds of the response interceptors that returned in the current attempt
RespKinds == [i \in DOMAIN call.respTrace |-> call.respTrace[i][1]]

\* C31: every attempt of a call runs the whole single-attempt algorithm on the
\* caller's descriptor, which the call never changes: an attempt starts by
\* injecting the token in force into that descriptor and hands the result to
\* the first registered request interceptor; the request interceptors are
\* then awaited one after the other, and the transport is called only after
\* the last registered one; when the attempt received a response, its status
\* is inspected only after every registered response interceptor has returned
\* once, in registration order, the first one having been given the response
\* of this attempt.
C31_WholeAlgorithmPerAttempt ==
  [][/\ call.pc # "idle" => call'.requestConfig = call.requestConfig
     /\ AttemptStarts =>
          /\ call'.respTrace = <<>> /\ call'.received = NoStatus
          /\ Len(requestInterceptors) > 0 =>
               /\ call'.pc = "reqInt" /\ call'.reqIdx = 1
               /\ call'.modifiedConfig =
                    [call'.requestConfig EXCEPT
                       !.headers.Authorization = ExpectedAuthorization(getAuthToken)]
          /\ Len(requestInterceptors) = 0 =>
               /\ call'.pc = "fetch"
               /\ call'.lastSent =
                    [call'.requestConfig EXCEPT
                       !.headers.Authorization = ExpectedAuthorization(getAuthToken)]
     /\ (call.pc = "reqInt" /\ call'.pc = "reqInt" /\ call' # call) =>
          call'.reqIdx = call.reqIdx + 1
     /\ (call.pc = "reqInt" /\ call'.pc = "fetch") =>
          /\ call.reqIdx = Len(requestInterceptors)
          /\ call'.fetchCalls = call.fetchCalls + 1
     /\ call'.pc = "fetch" => (call.pc = "fetch" \/ call.pc = "reqInt" \/ AttemptStarts)
     /\ (call.pc = "fetch" /\ call'.pc = "respInt") =>
          /\ call'.respIdx = 1 /\ call'.respTrace = <<>>
          /\ call'.response = call'.received
     /\ (call.pc = "respInt" /\ call'.pc = "respInt" /\ call' # call) =>
          /\ call'.respIdx = call.respIdx + 1
          /\ Len(call'.respTrace) = call.respIdx
     /\ (call.pc \in {"fetch", "respInt"} /\ call'.pc \in {"errBody", "parse"}) =>
          /\ RespKinds' = responseInterceptors
          /\ call'.received # NoStatus]_vars

\* a call of two attempts that both went through a request interceptor, the
\* transport and a response interceptor
C31_Witness ==
  /\ Done /\ call.attempt = 1 /\ call.fetchCalls = 2
  /\ Len(requestInterceptors) = 1 /\ call.reqIdx = 1
  /\ call.lastSent.headers.trace = <<"A">>
  /\ responseInterceptors = <<"pass">> /\ RespKinds = <<"pass">>
  /\ call.result.status = "success"

\* C32: a response whose status, when it is inspected, lies outside 200..299
\* makes the attempt fail with an HTTP error that carries exactly that status
\* and the body read from it: the decoded JSON when the Content-Type contains
\* 'application/json', the raw text otherwise, and undefined when reading or
\* decoding failed; the error is an HTTP error in each of these cases, and no
\* HTTP error ever carries a status in 200..299.
C32_HttpErrorCarriesStatusAndBody ==
  /\ [](/\ call.pc = "errBody" => (call.response < 200 \/ call.response > 299)
        /\ call.pc = "parse" => (call.response >= 200 /\ call.response <= 299)
        /\ call.attemptError.type = "http" =>
             (call.attemptError.statusCode < 200 \/ call.attemptError.statusCode > 299))
  /\ [][(call.pc = "errBody" /\ call' # call) =>
          LET error == call'.attemptError
              contentType == call'.bodyRead.contentType
              json == \E i \in DOMAIN contentType : contentType[i] = "application/json"
          IN /\ error.type = "http" /\ error.name = "HttpError"
             /\ error.statusCode = call.response
             /\ error.body = IF call'.bodyRead.fails THEN "undefined"
                             ELSE IF json THEN "json" ELSE "text"
             /\ call'.pc \in {"sleep", "done"}
             /\ call'.pc = "done" => call'.result.error = error]_vars

\* a 404 whose JSON body could not be decoded ended the call with an HTTP
\* error of status 404 and an undefined body
C32_Witness ==
  /\ Done /\ call.result.status = "error"
  /\ call.result.error.type = "http" /\ call.result.error.statusCode = 404
  /\ call.bodyRead = [contentType |-> <<"application/json", "; charset=utf-8">>, fails |-> TRUE]
  /\ call.result.error.body = "undefined"

\* a request has been built
Fetched == built.op = "fetch"

\* C33: the headers sent are the client's default headers overridden key by
\* key by those of the request; whenever the descriptor has a body other than
\* undefined and neither the client nor the request set a Content-Type
\* header, the request is sent with that body serialized and with
\* Content-Type 'application/json'; without a body the Content-Type is the
\* merged one, none being added.
C33_HeadersAndJsonBody ==
  Fetched =>
    LET config == built.config
        sent == built.sent
        set(name) == config.headers[name] # Absent \/ built.headers[name] # Absent
    IN /\ \A name \in HeaderNames \ {"Content-Type"} :
            sent.headers[name] = IF config.headers[name] # Absent THEN config.headers[name]
                                 ELSE built.headers[name]
       /\ set("Content-Type") =>
            sent.headers["Content-Type"] \in
               {IF config.headers["Content-Type"] # Absent THEN config.headers["Content-Type"]
                ELSE built.headers["Content-Type"], "application/json"}
       /\ (config.body # "undefined" /\ ~set("Content-Type") /\ ~set("content-type")) =>
            /\ sent.body = <<"JSON", config.body>>
            /\ sent.headers["Content-Type"] = "application/json"
       /\ (config.body = "undefined" /\ ~set("Content-Type")) =>
            /\ sent.body = <<>>
            /\ sent.headers["Content-Type"] = Absent

\* the path begins with the scheme marker http:// or https://
BeginsWithScheme(url) ==
  \/ Len(url) >= 2 /\ url[1] = "http" /\ url[2] = "://"
  \/ Len(url) >= 3 /\ url[1] = "http" /\ url[2] = "s" /\ url[3] = "://"

\* the key=value pairs of a mapping, percent-encoded and joined with '&'
RECURSIVE Pairs(_)
Pairs(entries) ==
  IF Len(entries) = 0 THEN <<>>
  ELSE encodeURIComponent(entries[1][1]) \o <<"=">> \o encodeURIComponent(entries[1][2])
       \o (IF Len(entries) = 1 THEN <<>> ELSE <<"&">> \o Pairs(Tail(entries)))

\* C34: the address handed to the transport is the path unchanged when it
\* begins with a scheme marker and the base address followed by the path when
\* it is relative; non-empty params are appended as key=value pairs in key
\* order joined with '&', after '?', or after '&' when the resolved address
\* contains '?'; absent or empty params append nothing.
C34_AddressResolution ==
  Fetched =>
    LET config == built.config
        resolved == IF BeginsWithScheme(config.url) THEN config.url
                    ELSE built.baseURL \o config.url
    IN IF ~config.params.present \/ config.params.entries = <<>>
       THEN built.sent.url = resolved
       ELSE built.sent.url =
              resolved \o <<IF \E i \in DOMAIN resolved : resolved[i] = "?" THEN "&" ELSE "?">>
                       \o Pairs(config.params.entries)

\* the name is empty, or too short or too long once trimmed
InvalidName(name) ==
  name.len = 0 \/ name.len < MinNameLength \/ name.len > MaxNameLength

\* the email is empty or malformed: trimmed, it is not a text without blanks
\* that has one @, something before it, and after it a dot with something
\* on both sides
InvalidEmail(email) ==
  LET text == trimText(email.text)
      ats == {i \in DOMAIN text : text[i] = "@"}
  IN \/ Len(text) = 0
     \/ \E i \in DOMAIN text : text[i] = " "
     \/ Cardinality(ats) # 1
     \/ \A at \in ats :
          \/ at = 1
          \/ ~\E dot \in (at + 2)..(Len(text) - 1) : text[dot] = "."

\* C35: createUser with a missing, empty, too short or too long name or a
\* missing, empty or malformed email, and updateUser with such a name or
\* email or with no field at all, throw ValidationError and leave the stored
\* users exactly as they were; the call has ended and touches the repository
\* no more.
C35_InvalidInputRejected ==
  [][\A slot \in 1..MaxServiceCalls :
       /\ \A userData \in CreateDtos :
            (/\ createUserOf(slot, userData)
             /\ \/ ~userData.name.given \/ InvalidName(userData.name)
                \/ ~userData.email.given \/ InvalidEmail(userData.email))
            => /\ users' = users
               /\ svc'[slot].outcome = "ValidationError" /\ svc'[slot].pc = "done"
       /\ \A id \in Ids, updates \in UpdateDtos :
            (/\ updateUserOf(slot, id, updates)
             /\ \/ ~updates.name.given /\ ~updates.email.given
                \/ updates.name.given /\ InvalidName(updates.name)
                \/ updates.email.given /\ InvalidEmail(updates.email))
            => /\ users' = users
               /\ svc'[slot].outcome = "ValidationError" /\ svc'[slot].pc = "done"
               /\ svc'[slot].existingUser = NoUser]_vars

\* an update of a stored user, itself updated before, was rejected
C35_Witness ==
  /\ users[1].present /\ users[1].updatedAt
  /\ svc[1].op = "update" /\ svc[1].outcome = "ValidationError" /\ svc[1].id = 1

\* the calls in the two slots are updates of the same user that have both
\* resolved, the first changing only the name, the second only the email
BothUpdatesResolved(a, b) ==
  /\ svc[a].op = "update" /\ svc[b].op = "update"
  /\ svc[a].outcome = "resolved" /\ svc[b].outcome = "resolved"
  /\ svc[a].id = svc[b].id
  /\ svc[a].updates.name.given /\ ~svc[a].updates.email.given
  /\ svc[b].updates.email.given /\ ~svc[b].updates.name.given

\* C36: when two updates of the same user, one of the name and one of the
\* email, have both resolved, the stored user has the new name and the new
\* email, however their reads and writes were interleaved.
C36_ConcurrentUpdatesBothApply ==
  \A a, b \in 1..MaxServiceCalls :
    BothUpdatesResolved(a, b) =>
      /\ users[svc[a].id].name = svc[a].updates.name.len
      /\ users[svc[a].id].email = toLowerCase(trimText(svc[b].updates.email.text))

\* the listeners of a list that do not remove themselves
Others(list) == SelectSeq(list, LAMBDA l : l # "onceListener")

\* C37: when the listeners registered at the start of an emit do nothing to
\* the emitter but remove themselves with off, the emit has called, when it
\* returns, every other listener registered at its start exactly once, in
\* registration order.
C37_SelfRemovalKeepsOthers ==
  (/\ emitted.outcome = "returned"
   /\ \A i \in DOMAIN emitted.atStart : emitted.atStart[i] \notin {"resubscriber", "clearer"})
  => Others(emitted.invoked) = Others(emitted.atStart)

\* C38: an emit calls at most as many listeners as were registered for the
\* event when it started, and only those, whatever the listeners do to the
\* emitter while it dispatches.
C38_EmitBounded ==
  /\ Len(emitted.invoked) <= Len(emitted.atStart)
  /\ \A i \in DOMAIN emitted.invoked :
       \E j \in DOMAIN emitted.atStart : emitted.atStart[j] = emitted.invoked[i]

\* C39: a timer is armed only while its attempt waits for fetch, so never
\* during response interceptors, body parsing, a sleep or the request
\* interceptors of a later attempt; the step that arms a timer starts with no
\* timer armed, so at most one is armed; and a signal is aborted only while
\* the attempt whose timer fired waits for fetch.
C39_TimerOnlyWhileFetching ==
  /\ [](call.timerArmed => call.pc = "fetch")
  /\ [][/\ (call'.fetchCalls # call.fetchCalls) => (~call.timerArmed /\ call'.timerArmed)
        /\ (call'.aborted /\ ~call.aborted) =>
             (call.pc = "fetch" /\ call'.pc = "fetch" /\ call'.fetchCalls = call.fetchCalls)]_vars

\* the second attempt of a call waits for fetch with its timer armed, after a
\* first attempt that went through a response interceptor
C39_Witness ==
  /\ call.pc = "fetch" /\ call.timerArmed
  /\ call.fetchCalls = 2
  /\ Len(responseInterceptors) > 0
  /\ call.transport.last = "5xx"

\* C40: the step of every failed entry of a result of execute is the name of
\* one of the steps of the pipeline, a string that is not empty, and is never
\* the label 'unknown'.
C40_FailedStepIsAStepName ==
  ExecuteDone =>
    \A k \in DOMAIN exec.result.failed :
      /\ \E n \in 1..Len(StepsOf(exec.pipeline)) :
           exec.result.failed[k].step = StepsOf(exec.pipeline)[n].name
      /\ exec.result.failed[k].step \notin {NoName, Name("unknown")}

====
